---- MODULE Spec2Model ----
(***************************************************************************)
(* Model of the BayLeaf API worker: the user_keys registry (D1), the       *)
(* upstream OpenRouter key store, the /key and /dashboard handlers and     *)
(* resolveAuth.  Every handler is split at its awaits: one action per      *)
(* registry statement or upstream call, so concurrent requests interleave  *)
(* exactly where the worker can interleave them.                           *)
(*                                                                         *)
(* Strings that the code inspects character by character (the              *)
(* Authorization header, proxy tokens, upstream secrets) are sequences of  *)
(* one-character strings.  An optional value (`T | null`) is a set with at *)
(* most one element; {} is null.                                           *)
(***************************************************************************)
EXTENDS FiniteSets, Integers, Sequences, TLC

\* ---------------------------------------------------------------- bounds
\* number of proxy tokens the random source hands out in one behaviour
MaxTokens == 3
\* number of upstream keys OpenRouter creates in one behaviour
MaxKeys == 2
\* number of upstream keys that get disabled or deleted in one behaviour
MaxDeadKeys == 1

\* the users of the registry; the one whose requests run concurrently in
\* Spec (every statement of the handlers is keyed by the session's email);
\* the request slots
Emails == {"a", "b"}
SignedIn == {"a"}
Procs == {"p1", "p2"}
NoSession == ""

\* ------------------------------------------------------------- constants
BAYLEAF_TOKEN_PREFIX == <<"s","k","-","b","a","y","l","e","a","f","-">>
OR_SECRET_PREFIX == <<"s","k","-","o","r","-">>
BEARER == <<"B","e","a","r","e","r"," ">>
HexDigits == <<"0","1","2","3","4","5","6","7","8","9","a","b","c","d","e","f">>

\* b.toString(16).padStart(2, '0')
HexByte(b) == <<HexDigits[(b \div 16) + 1], HexDigits[(b % 16) + 1]>>

\* generateBayleafToken: prefix + hex of the random bytes.  The model draws
\* one byte (the code draws 16) and the CSPRNG is a source of values that
\* never repeat: the n-th draw returns n.
generateBayleafToken(n) == BAYLEAF_TOKEN_PREFIX \o HexByte(n)

\* the secret OpenRouter returns for the n-th key it creates
OrSecret(n) == OR_SECRET_PREFIX \o HexByte(n)

VARIABLES
  user_keys,      \* D1 table user_keys: a set of rows
  orKeys,         \* OpenRouter's key store: a set of keys
  nextToken,      \* draws taken from the random source
  nextKey,        \* keys OpenRouter has created
  pc,             \* per slot: the await the request is parked at
  kind,           \* per slot: "POST" | "DELETE" | "GET" | "DASH" | "AUTH"
  session,        \* per slot: getSession's email, or NoSession
  row,            \* per slot: `row` of GET /key and of the dashboard
  revoked,        \* per slot: `revoked` of POST /key
  orKeyRef,       \* per slot: orKeyHash / orKeySecret of POST /key
  response,       \* per slot: the response the request ended with
  branch,         \* history, per slot: the branch the request ended on
  authHeader,     \* per slot: Authorization header of a /v1 request
  onCampus,       \* per slot: the /v1 request's client IP is in a campus range
  authResult,     \* per slot: AuthResult of resolveAuth, if it returned one
  revokedTokens,  \* history: tokens a successful DELETE /key revoked
  overlapped,     \* history: POST /key requests that ran concurrently
  replaced,       \* history: token and upstream secret a self-heal replaced
  env,            \* the worker's bindings that the /v1 handlers read
  request,        \* per slot: the inbound /v1 request
  outbound,       \* per slot: `body` of a /v1 handler once it is rewritten
  sent            \* per slot: the request the /v1 handler passed to fetch

vars == <<user_keys, orKeys, nextToken, nextKey, pc, kind, session, row,
          revoked, orKeyRef, response, branch, authHeader, onCampus,
          authResult, revokedTokens, overlapped, replaced, env, request,
          outbound, sent>>

\* the bindings and the slots' state that only the /v1 handlers touch
ProxyState == <<env, request, outbound, sent>>

\* ------------------------------------------------------------ responses
\* A response is its status and the credential strings rendered into its
\* body (static text and usage numbers carry no state and are left out).
\* `error` is the error text of the body ("" on success).
Resp(status, error, body) == [status |-> status, error |-> error, body |-> body]
NoResponse == Resp(0, "", {})

\* ------------------------------------------------------------- registry
Row(email, token, hash, secret, rev) ==
  [email |-> email, bayleaf_token |-> token, or_key_hash |-> hash,
   or_key_secret |-> secret, revoked |-> rev]

\* SELECT * FROM user_keys WHERE email = ? AND revoked = ?   (.first())
SelectByEmail(table, email, rev) ==
  {r \in table : r.email = email /\ r.revoked = rev}

\* the lookup by token with `AND revoked = 0` left out
SelectByToken_AnyRow(table, token) ==
  {r \in table : r.bayleaf_token = token}

\* SELECT * FROM user_keys WHERE bayleaf_token = ? AND revoked = 0
SelectByToken(table, token) ==
  {r \in table : r.bayleaf_token = token /\ r.revoked = 0}

\* email TEXT PRIMARY KEY only: the table constraint with UNIQUE dropped
ConstraintOk_NoPrimaryKey(table, r) ==
  \A x \in table : x.bayleaf_token # r.bayleaf_token

\* email TEXT PRIMARY KEY, bayleaf_token TEXT NOT NULL UNIQUE
ConstraintOk(table, r) ==
  \A x \in table : x.email # r.email /\ x.bayleaf_token # r.bayleaf_token

\* the self-heal UPDATE that also sets `revoked = 0`, as the reactivating
\* UPDATE of POST /key does
UpdateUpstreamRef_Unrevoke(table, email, hash, secret) ==
  {IF r.email = email
     THEN [r EXCEPT !.or_key_hash = hash, !.or_key_secret = secret,
                    !.revoked = 0]
     ELSE r : r \in table}

\* UPDATE user_keys SET or_key_hash = ?, or_key_secret = ? WHERE email = ?
UpdateUpstreamRef(table, email, hash, secret) ==
  {IF r.email = email
     THEN [r EXCEPT !.or_key_hash = hash, !.or_key_secret = secret]
     ELSE r : r \in table}

\* the reactivating UPDATE with `bayleaf_token = ?` left out
Reactivate_KeepToken(table, email, token, hash, secret) ==
  {IF r.email = email
     THEN [r EXCEPT !.or_key_hash = hash, !.or_key_secret = secret,
                    !.revoked = 0]
     ELSE r : r \in table}

\* UPDATE user_keys SET bayleaf_token = ?, or_key_hash = ?,
\*   or_key_secret = ?, revoked = 0, created_at = ... WHERE email = ?
Reactivate(table, email, token, hash, secret) ==
  {IF r.email = email
     THEN [r EXCEPT !.bayleaf_token = token, !.or_key_hash = hash,
                    !.or_key_secret = secret, !.revoked = 0]
     ELSE r : r \in table}

\* the revoking UPDATE without its WHERE clause
Revoke_AllRows(table, email) == {[r EXCEPT !.revoked = 1] : r \in table}

\* UPDATE user_keys SET revoked = 1 WHERE email = ?
Revoke(table, email) ==
  {IF r.email = email THEN [r EXCEPT !.revoked = 1] ELSE r : r \in table}

\* ------------------------------------------------------------- upstream
\* getKeyName: template.replace('$email', email); the template is "$email"
getKeyName(email) == email

OrKey(hash, name, disabled) ==
  [hash |-> hash, name |-> name, disabled |-> disabled]

\* findKeyByHash: GET /keys/{hash}; the key, or null when the response is
\* not ok (OpenRouter answers 404 for a key it does not hold)
findKeyByHash(keys, hash) == {k \in keys : k.hash = hash}

\* the liveness test with `!orKey.disabled` left out
Alive_IgnoreDisabled(found) == found # {}

\* orKey && !orKey.disabled
Alive(found) == \E k \in found : ~k.disabled

\* what the self-heal UPDATE for `email` overwrites in an active record:
\* the token with the upstream secret stored under it
Replaced(table, email) ==
  {[token |-> r.bayleaf_token, secret |-> r.or_key_secret] :
     r \in SelectByEmail(table, email, 0)}

\* or_key_hash and or_key_secret of the rows
UpstreamRef(rows) ==
  {[hash |-> r.or_key_hash, key |-> r.or_key_secret] : r \in rows}

\* ------------------------------------------------------- request slots
Idle(p) == pc[p] \in {"idle", "done"}
InFlight(p) == ~Idle(p)

\* The handler's local variables.  A local keeps the columns of the row
\* that the handler reads after the SELECT: all of them in the dashboard
\* (the page renders the row), the upstream id and secret in GET /key and
\* POST /key; `existing` of POST /key and DELETE /key is only tested.
Locals(p, rw, rv, ref) ==
  /\ row' = [row EXCEPT ![p] = rw]
  /\ revoked' = [revoked EXCEPT ![p] = rv]
  /\ orKeyRef' = [orKeyRef EXCEPT ![p] = ref]

\* the request in slot p ends with response r, having taken branch b; its
\* locals and its context go out of scope
Finish(p, r, b) ==
  /\ pc' = [pc EXCEPT ![p] = "done"]
  /\ response' = [response EXCEPT ![p] = r]
  /\ branch' = [branch EXCEPT ![p] = b]
  /\ session' = [session EXCEPT ![p] = NoSession]
  /\ Locals(p, {}, {}, {})

\* the request in slot p is parked at its next await
Goto(p, label, rw, rv, ref) ==
  /\ pc' = [pc EXCEPT ![p] = label]
  /\ Locals(p, rw, rv, ref)
  /\ UNCHANGED <<response, branch, session>>

\* POST /key requests for the same email that are in flight together
\* while the user has no active record
ConcurrentPosts(p, k, s) ==
  IF k = "POST" /\ s # NoSession
    THEN {q \in Procs \ {p} :
            /\ InFlight(q) /\ kind[q] = "POST" /\ session[q] = s
            /\ SelectByEmail(user_keys, s, 0) = {}}
    ELSE {}

\* A request arrives in a free slot.  keyRoutes.use('/key') answers 401
\* without a session and the dashboard redirects to /login; otherwise the
\* handler runs up to its first await.
Start(p, k, s) ==
  /\ Idle(p)
  /\ kind' = [kind EXCEPT ![p] = k]
  /\ authHeader' = [authHeader EXCEPT ![p] = {}]
  /\ onCampus' = [onCampus EXCEPT ![p] = FALSE]
  /\ authResult' = [authResult EXCEPT ![p] = {}]
  /\ overlapped' = [q \in Procs |->
       IF q = p THEN ConcurrentPosts(p, k, s)
       ELSE IF q \in ConcurrentPosts(p, k, s) THEN overlapped[q] \cup {p}
       ELSE overlapped[q] \ {p}]
  /\ IF s = NoSession
       THEN Finish(p, IF k = "DASH" THEN Resp(302, "", {})
                                    ELSE Resp(401, "Unauthorized", {}),
                   "no_session")
       ELSE /\ pc' = [pc EXCEPT ![p] = "select_active"]
            /\ response' = [response EXCEPT ![p] = NoResponse]
            /\ branch' = [branch EXCEPT ![p] = ""]
            /\ session' = [session EXCEPT ![p] = s]
            /\ Locals(p, {}, {}, {})
  /\ UNCHANGED <<user_keys, orKeys, nextToken, nextKey, revokedTokens,
                 replaced,
                 ProxyState>>

\* what a handler step leaves alone besides the registry, the upstream
\* store and its own slot
HealFrame ==
  <<kind, authHeader, onCampus, authResult, overlapped, ProxyState>>
Frame == <<HealFrame, replaced>>

\* ----------------------------------------------------------- POST /key
\* the success body carrying the upstream secret, as the handler did before
\* proxy tokens existed ({ success: true, key: newKeyData.key })
KeyCreatedResponse_Secret(bayleafToken, ref) == Resp(200, "", {ref.key})

\* the 409 telling the caller which key exists
ConflictResponse_WithToken(existing) ==
  Resp(409, "Key already exists", {r.bayleaf_token : r \in existing})

\* c.json({ error: 'Key already exists' }, 409)
ConflictResponse(existing) == Resp(409, "Key already exists", {})

\* c.json({ success: true, key: bayleafToken })
KeyCreatedResponse(bayleafToken, ref) == Resp(200, "", {bayleafToken})

\* POST /key without the `if (existing)` return
PostSelectActive_NoCheck(p) ==
  /\ pc[p] = "select_active" /\ kind[p] = "POST"
  /\ Goto(p, "post_select_revoked", {}, {}, {})
  /\ UNCHANGED <<user_keys, orKeys, nextToken, nextKey, revokedTokens, Frame>>

\* existing = SELECT ... WHERE email = ? AND revoked = 0; 409 if found
PostSelectActive(p) ==
  /\ pc[p] = "select_active" /\ kind[p] = "POST"
  /\ LET existing == SelectByEmail(user_keys, session[p], 0) IN
       IF existing # {}
         THEN Finish(p, ConflictResponse(existing), "conflict")
         ELSE Goto(p, "post_select_revoked", {}, {}, {})
  /\ UNCHANGED <<user_keys, orKeys, nextToken, nextKey, revokedTokens, Frame>>

\* revoked = SELECT ... WHERE email = ? AND revoked = 1
PostSelectRevoked(p) ==
  /\ pc[p] = "post_select_revoked"
  /\ LET found == SelectByEmail(user_keys, session[p], 1) IN
       Goto(p, IF found # {} THEN "post_find_hash" ELSE "post_create",
            {}, UpstreamRef(found), {})
  /\ UNCHANGED <<user_keys, orKeys, nextToken, nextKey, revokedTokens, Frame>>

\* orKey = findKeyByHash(revoked.or_key_hash); reuse it when it is alive
PostFindKeyByHash(p) ==
  /\ pc[p] = "post_find_hash"
  /\ \E r \in revoked[p] :
       IF Alive(findKeyByHash(orKeys, r.hash))
         THEN Goto(p, "post_write", {}, revoked[p], {r})
         ELSE Goto(p, "post_create", {}, revoked[p], {})
  /\ UNCHANGED <<user_keys, orKeys, nextToken, nextKey, revokedTokens, Frame>>

\* createKey answered ok: OpenRouter holds a new key
CreateKeyOk(p) ==
  /\ nextKey < MaxKeys
  /\ nextKey' = nextKey + 1
  /\ orKeys' = orKeys \cup {OrKey(nextKey + 1, getKeyName(session[p]), FALSE)}

\* the hash and the secret createKey returns (newOrKey.hash, newOrKey.key)
NewOrKey == {[hash |-> nextKey + 1, key |-> OrSecret(nextKey + 1)]}

\* newOrKey = createKey(keyName) on either branch of POST /key (the
\* first-time branch first awaits findKeyByName and ignores its result)
PostCreateKey(p) ==
  /\ pc[p] = "post_create"
  /\ \/ /\ CreateKeyOk(p)
        /\ Goto(p, "post_write", {}, revoked[p], NewOrKey)
     \/ /\ Finish(p, Resp(500, "Failed to create key", {}), "create_failed")
        /\ UNCHANGED <<orKeys, nextKey>>
  /\ UNCHANGED <<user_keys, nextToken, revokedTokens, Frame>>

\* bayleafToken = generateBayleafToken(); UPDATE the revoked row or INSERT
\* a new one; a constraint failure of the INSERT throws into app.onError
PostWrite(p) ==
  /\ pc[p] = "post_write"
  /\ nextToken < MaxTokens
  /\ nextToken' = nextToken + 1
  /\ \E ref \in orKeyRef[p] :
       LET bayleafToken == generateBayleafToken(nextToken + 1)
           newRow == Row(session[p], bayleafToken, ref.hash, ref.key, 0)
       IN IF revoked[p] # {}
            THEN /\ user_keys' = Reactivate(user_keys, session[p],
                                            bayleafToken, ref.hash, ref.key)
                 /\ Finish(p, KeyCreatedResponse(bayleafToken, ref),
                           IF ref \in revoked[p]
                             THEN "reactivated" ELSE "reactivated_fresh")
            ELSE IF ConstraintOk(user_keys, newRow)
              THEN /\ user_keys' = user_keys \cup {newRow}
                   /\ Finish(p, KeyCreatedResponse(bayleafToken, ref),
                             "inserted")
              ELSE /\ UNCHANGED user_keys
                   /\ Finish(p, Resp(500, "Server Error", {}), "insert_threw")
  /\ UNCHANGED <<orKeys, nextKey, revokedTokens, Frame>>

\* --------------------------------------------------------- DELETE /key
\* existing = SELECT ... WHERE email = ? AND revoked = 0; 404 if none
DeleteSelect(p) ==
  /\ pc[p] = "select_active" /\ kind[p] = "DELETE"
  /\ LET existing == SelectByEmail(user_keys, session[p], 0) IN
       IF existing = {}
         THEN Finish(p, Resp(404, "No key found", {}), "not_found")
         ELSE Goto(p, "delete_update", {}, {}, {})
  /\ UNCHANGED <<user_keys, orKeys, nextToken, nextKey, revokedTokens, Frame>>

\* the revoke that also deletes the upstream key, as the handler did when
\* the key lived upstream only (deleteKey(existing.hash))
DeleteUpdate_DeleteKey(p) ==
  /\ pc[p] = "delete_update"
  /\ user_keys' = Revoke(user_keys, session[p])
  /\ orKeys' = {k \in orKeys : \A r \in user_keys :
                  r.email = session[p] => k.hash # r.or_key_hash}
  /\ revokedTokens' = revokedTokens \cup
       {r.bayleaf_token : r \in {x \in user_keys : x.email = session[p]}}
  /\ Finish(p, Resp(200, "", {}), "revoked")
  /\ UNCHANGED <<nextToken, nextKey, Frame>>

\* UPDATE user_keys SET revoked = 1 WHERE email = ?
DeleteUpdate(p) ==
  /\ pc[p] = "delete_update"
  /\ user_keys' = Revoke(user_keys, session[p])
  /\ revokedTokens' = revokedTokens \cup
       {r.bayleaf_token : r \in {x \in user_keys : x.email = session[p]}}
  /\ Finish(p, Resp(200, "", {}), "revoked")
  /\ UNCHANGED <<orKeys, nextToken, nextKey, Frame>>

\* -------------------------------------------------------------- GET /key
\* c.json({ exists: true, key: { usage_daily, usage_monthly, limit,
\*   limit_remaining, created_at } }): numbers and a date, no credential
KeyInfoResponse(r) == Resp(200, "", {})

\* GET /key that provisions when it finds no active record (ensureOrKey
\* called with a null row and creating the key)
GetSelect_AutoProvision(p) ==
  /\ pc[p] = "select_active" /\ kind[p] = "GET"
  /\ LET found == SelectByEmail(user_keys, session[p], 0) IN
       IF found = {}
         THEN Goto(p, "ensure_create", {}, {}, {})
         ELSE Goto(p, "ensure_find_hash", UpstreamRef(found), {}, {})
  /\ UNCHANGED <<user_keys, orKeys, nextToken, nextKey, revokedTokens, Frame>>

\* row = SELECT ... WHERE email = ? AND revoked = 0; 404 if none
GetSelect(p) ==
  /\ pc[p] = "select_active" /\ kind[p] = "GET"
  /\ LET found == SelectByEmail(user_keys, session[p], 0) IN
       IF found = {}
         THEN Finish(p, Resp(404, "No key found", {}), "not_found")
         ELSE Goto(p, "ensure_find_hash", UpstreamRef(found), {}, {})
  /\ UNCHANGED <<user_keys, orKeys, nextToken, nextKey, revokedTokens, Frame>>

\* ensureOrKey: orKey = findKeyByHash(row.or_key_hash); as-is when alive.
\* GET /key then answers with the usage numbers of orKey.
EnsureFindKeyByHash(p) ==
  /\ pc[p] = "ensure_find_hash"
  /\ \E r \in row[p] :
       IF Alive(findKeyByHash(orKeys, r.hash))
         THEN Finish(p, KeyInfoResponse(row[p]), "alive")
         ELSE Goto(p, "ensure_create", row[p], {}, {})
  /\ UNCHANGED <<user_keys, orKeys, nextToken, nextKey, revokedTokens, Frame>>

\* ensureOrKey: newOrKey = createKey(keyName); null makes GET /key answer 500
EnsureCreateKey(p) ==
  /\ pc[p] = "ensure_create"
  /\ \/ /\ CreateKeyOk(p)
        /\ Goto(p, "ensure_update", row[p], {}, NewOrKey)
     \/ /\ Finish(p, Resp(500, "Failed to validate key", {}), "create_failed")
        /\ UNCHANGED <<orKeys, nextKey>>
  /\ UNCHANGED <<user_keys, nextToken, revokedTokens, Frame>>

\* the self-heal UPDATE writing the new id without the new secret
EnsureUpdate_KeepSecret(p) ==
  /\ pc[p] = "ensure_update"
  /\ \E ref \in orKeyRef[p] :
       user_keys' = {IF r.email = session[p]
                       THEN [r EXCEPT !.or_key_hash = ref.hash] ELSE r :
                     r \in user_keys}
  /\ replaced' = replaced \cup Replaced(user_keys, session[p])
  /\ Finish(p, KeyInfoResponse(row[p]), "healed")
  /\ UNCHANGED <<orKeys, nextToken, nextKey, revokedTokens, HealFrame>>

\* ensureOrKey: UPDATE ... SET or_key_hash, or_key_secret WHERE email = ?
EnsureUpdate(p) ==
  /\ pc[p] = "ensure_update"
  /\ \E ref \in orKeyRef[p] :
       user_keys' = UpdateUpstreamRef(user_keys, session[p], ref.hash, ref.key)
  /\ replaced' = replaced \cup Replaced(user_keys, session[p])
  /\ Finish(p, KeyInfoResponse(row[p]), "healed")
  /\ UNCHANGED <<orKeys, nextToken, nextKey, revokedTokens, HealFrame>>

\* -------------------------------------------------------- GET /dashboard
\* dashboardPage(session, row, orKey, ...): the page always carries
\* `const BAYLEAF_TOKEN = '${row?.bayleaf_token || ''}'`; the usage numbers
\* of orKey carry no credential
dashboardPage(r) == Resp(200, "", {x.bayleaf_token : x \in r})

\* row = SELECT ... WHERE email = ? AND revoked = 0
DashSelect(p) ==
  /\ pc[p] = "select_active" /\ kind[p] = "DASH"
  /\ LET found == SelectByEmail(user_keys, session[p], 0) IN
       IF found = {}
         THEN Finish(p, dashboardPage({}), "not_found")
         ELSE Goto(p, "dash_find_hash", found, {}, {})
  /\ UNCHANGED <<user_keys, orKeys, nextToken, nextKey, revokedTokens, Frame>>

\* orKey = findKeyByHash(row.or_key_hash)
DashFindKeyByHash(p) ==
  /\ pc[p] = "dash_find_hash"
  /\ \E r \in row[p] :
       IF Alive(findKeyByHash(orKeys, r.or_key_hash))
         THEN Finish(p, dashboardPage(row[p]), "alive")
         ELSE Goto(p, "dash_create", row[p], {}, {})
  /\ UNCHANGED <<user_keys, orKeys, nextToken, nextKey, revokedTokens, Frame>>

\* newOrKey = createKey(keyName); when it fails the page is rendered with
\* the row and the old orKey
DashCreateKey(p) ==
  /\ pc[p] = "dash_create"
  /\ \/ /\ CreateKeyOk(p)
        /\ Goto(p, "dash_update", row[p], {}, NewOrKey)
     \/ /\ Finish(p, dashboardPage(row[p]), "create_failed")
        /\ UNCHANGED <<orKeys, nextKey>>
  /\ UNCHANGED <<user_keys, nextToken, revokedTokens, Frame>>

\* UPDATE ... SET or_key_hash, or_key_secret WHERE email = ?; render
DashUpdate(p) ==
  /\ pc[p] = "dash_update"
  /\ \E ref \in orKeyRef[p] :
       user_keys' = UpdateUpstreamRef(user_keys, session[p], ref.hash, ref.key)
  /\ replaced' = replaced \cup Replaced(user_keys, session[p])
  /\ Finish(p, dashboardPage(row[p]), "healed")
  /\ UNCHANGED <<orKeys, nextToken, nextKey, revokedTokens, HealFrame>>

\* ---------------------------------------------------- upstream drift
\* the keys OpenRouter created that are disabled or deleted by now
DeadKeys == {h \in 1..nextKey : ~Alive(findKeyByHash(orKeys, h))}

\* OpenRouter (or its operator) disables a key
UpstreamDisable(h) ==
  /\ \E k \in orKeys : k.hash = h /\ ~k.disabled
  /\ Cardinality(DeadKeys) < MaxDeadKeys
  /\ orKeys' = {IF k.hash = h THEN [k EXCEPT !.disabled = TRUE] ELSE k :
                k \in orKeys}
  /\ UNCHANGED <<user_keys, nextToken, nextKey, pc, session, row, revoked,
                 orKeyRef, response, branch, revokedTokens, Frame>>

\* OpenRouter (or its operator) deletes a key
UpstreamDelete(h) ==
  /\ \E k \in orKeys : k.hash = h
  /\ h \in DeadKeys \/ Cardinality(DeadKeys) < MaxDeadKeys
  /\ orKeys' = {k \in orKeys : k.hash # h}
  /\ UNCHANGED <<user_keys, nextToken, nextKey, pc, session, row, revoked,
                 orKeyRef, response, branch, revokedTokens, Frame>>


\* ------------------------------------------------------------- strings
UpperCase == <<"A","B","C","E","F","K","L","M","P","R","S","U","Y">>
LowerCase == <<"a","b","c","e","f","k","l","m","p","r","s","u","y">>

\* String.prototype.toLowerCase, one character
LowerChar(c) ==
  IF \E i \in 1..Len(UpperCase) : UpperCase[i] = c
    THEN LowerCase[CHOOSE i \in 1..Len(UpperCase) : UpperCase[i] = c]
    ELSE c

\* the comparison made case-sensitive: no lowering at all
toLowerCase_Identity(s) == s

toLowerCase(s) == [i \in 1..Len(s) |-> LowerChar(s[i])]

\* \s of the regular expression, and the characters trim() removes
IsSpace(c) == c \in {" ", "\t"}

startsWith(s, prefix) ==
  /\ Len(s) >= Len(prefix)
  /\ SubSeq(s, 1, Len(prefix)) = prefix

\* s without its leading whitespace
RECURSIVE TrimStart(_)
TrimStart(s) ==
  IF s # <<>> /\ IsSpace(Head(s)) THEN TrimStart(Tail(s)) ELSE s

\* s without its trailing whitespace
RECURSIVE TrimEnd(_)
TrimEnd(s) ==
  IF s # <<>> /\ IsSpace(s[Len(s)])
    THEN TrimEnd(SubSeq(s, 1, Len(s) - 1)) ELSE s

\* String.prototype.trim
trim(s) == TrimEnd(TrimStart(s))

\* s.replace(/^Bearer\s+/i, ''): "bearer" in any case followed by at least
\* one whitespace character is removed together with all that whitespace
StripBearer(s) ==
  IF /\ Len(s) >= 7
     /\ toLowerCase(SubSeq(s, 1, 6)) = <<"b","e","a","r","e","r">>
     /\ IsSpace(s[7])
    THEN TrimStart(SubSeq(s, 7, Len(s)))
    ELSE s

\* ---------------------------------------------------------- resolveAuth
CAMPUS == <<"c","a","m","p","u","s">>
\* env.CAMPUS_POOL_KEY
CAMPUS_POOL_KEY == <<"s","k","-","o","r","-","p","o","o","l">>

\* isCampusPassEligible: a pool key and ranges are configured and the
\* client IP is in one of the ranges (onCampus)
isCampusPassEligible(campus) == CAMPUS_POOL_KEY # <<>> /\ campus

\* AuthResult, and the 401 Response; `lookups` are the tokens resolveAuth
\* queried the registry for
AuthOk(authorization, isCampusMode, userEmail, lookups) ==
  [ok |-> TRUE, status |-> 200, message |-> "",
   authorization |-> authorization, isCampusMode |-> isCampusMode,
   userEmail |-> userEmail, lookups |-> lookups]

AuthDenied(message, lookups) ==
  [ok |-> FALSE, status |-> 401, message |-> message,
   authorization |-> <<>>, isCampusMode |-> FALSE, userEmail |-> {},
   lookups |-> lookups]

\* providedKey = authHeader?.replace(/^Bearer\s+/i, '').trim()
providedKey(header) == {trim(StripBearer(h)) : h \in header}

\* the passthrough that forwards the normalised candidate as a Bearer
\* credential
Passthrough_Normalised(header) ==
  AuthOk(BEARER \o (CHOOSE k \in providedKey(header) : TRUE), FALSE, {}, {})

\* Raw OpenRouter key passthrough:
\* { authorization: authHeader!, isCampusMode: false }
Passthrough(header) == AuthOk(CHOOSE h \in header : TRUE, FALSE, {}, {})

\* resolveAuth(c): header is the Authorization header ({} when absent)
resolveAuth(header, campus, table) ==
  LET key == providedKey(header) IN
    IF key = {} \/ key = {<<>>} \/ {toLowerCase(k) : k \in key} = {CAMPUS}
      THEN IF isCampusPassEligible(campus)
             THEN AuthOk(BEARER \o CAMPUS_POOL_KEY, TRUE, {}, {})
             ELSE AuthDenied("API key required", {})
      ELSE LET k == CHOOSE x \in key : TRUE IN
        IF startsWith(k, BAYLEAF_TOKEN_PREFIX)
          THEN LET found == SelectByToken(table, k) IN
            IF found = {}
              THEN AuthDenied("Invalid or revoked API key", {k})
              ELSE LET r == CHOOSE x \in found : TRUE IN
                AuthOk(BEARER \o r.or_key_secret, FALSE, {r.email}, {k})
          ELSE Passthrough(header)

\* A /v1 request up to the return of resolveAuth (its only await is the
\* registry SELECT): the slot keeps the AuthResult, or ends with the 401.
ProxyAuth(p, header, campus) ==
  /\ Idle(p)
  /\ onCampus' = [onCampus EXCEPT ![p] = campus]
  /\ LET res == resolveAuth(header, campus, user_keys) IN
       /\ authResult' = [authResult EXCEPT ![p] = {res}]
       /\ response' = [response EXCEPT ![p] =
            IF res.ok THEN NoResponse ELSE Resp(401, res.message, {})]
  /\ authHeader' = [authHeader EXCEPT ![p] = header]
  /\ pc' = [pc EXCEPT ![p] = "done"]
  /\ kind' = [kind EXCEPT ![p] = "AUTH"]
  /\ branch' = [branch EXCEPT ![p] = ""]
  /\ session' = [session EXCEPT ![p] = NoSession]
  /\ Locals(p, {}, {}, {})
  /\ overlapped' = [q \in Procs |-> overlapped[q] \ {p}]
  /\ UNCHANGED <<user_keys, orKeys, nextToken, nextKey, revokedTokens,
                 replaced,
                 ProxyState>>

\* ------------------------------------------------------------ bindings
\* env.SYSTEM_PROMPT_PREFIX and env.CAMPUS_SYSTEM_PREFIX as deployed
SYSTEM_PROMPT_PREFIX == <<"P">>
CAMPUS_SYSTEM_PREFIX == <<"C">>

Env(base, campus) ==
  [SYSTEM_PROMPT_PREFIX |-> base, CAMPUS_SYSTEM_PREFIX |-> campus]

\* ------------------------------------------------------ specification
Init ==
  /\ user_keys = {}
  /\ orKeys = {}
  /\ nextToken = 0
  /\ nextKey = 0
  /\ pc = [p \in Procs |-> "idle"]
  /\ kind = [p \in Procs |-> "GET"]
  /\ session = [p \in Procs |-> NoSession]
  /\ row = [p \in Procs |-> {}]
  /\ revoked = [p \in Procs |-> {}]
  /\ orKeyRef = [p \in Procs |-> {}]
  /\ response = [p \in Procs |-> NoResponse]
  /\ branch = [p \in Procs |-> ""]
  /\ authHeader = [p \in Procs |-> {}]
  /\ onCampus = [p \in Procs |-> FALSE]
  /\ authResult = [p \in Procs |-> {}]
  /\ revokedTokens = {}
  /\ overlapped = [p \in Procs |-> {}]
  /\ replaced = {}
  /\ env = Env(SYSTEM_PROMPT_PREFIX, CAMPUS_SYSTEM_PREFIX)
  /\ request = [p \in Procs |-> {}]
  /\ outbound = [p \in Procs |-> {}]
  /\ sent = [p \in Procs |-> {}]

Next ==
  \/ \E p \in Procs, k \in {"POST", "DELETE", "GET", "DASH"},
        s \in SignedIn \cup {NoSession} : Start(p, k, s)
  \/ \E p \in Procs : PostSelectActive(p)
  \/ \E p \in Procs : PostSelectRevoked(p)
  \/ \E p \in Procs : PostFindKeyByHash(p)
  \/ \E p \in Procs : PostCreateKey(p)
  \/ \E p \in Procs : PostWrite(p)
  \/ \E p \in Procs : DeleteSelect(p)
  \/ \E p \in Procs : DeleteUpdate(p)
  \/ \E p \in Procs : GetSelect(p)
  \/ \E p \in Procs : EnsureFindKeyByHash(p)
  \/ \E p \in Procs : EnsureCreateKey(p)
  \/ \E p \in Procs : EnsureUpdate(p)
  \/ \E p \in Procs : DashSelect(p)
  \/ \E p \in Procs : DashFindKeyByHash(p)
  \/ \E p \in Procs : DashCreateKey(p)
  \/ \E p \in Procs : DashUpdate(p)
  \/ \E h \in 1..MaxKeys : UpstreamDisable(h)
  \/ \E h \in 1..MaxKeys : UpstreamDelete(h)

Spec == Init /\ [][Next]_vars

\* ---------------------------------------------- resolveAuth on its own
\* Registries the worker reaches: empty, and one where user a holds an
\* active key and user b a revoked one.
Token1 == generateBayleafToken(1)
Token2 == generateBayleafToken(2)
Token3 == generateBayleafToken(3)

AuthRegistry ==
  {Row("a", Token1, 1, OrSecret(1), 0), Row("b", Token2, 2, OrSecret(2), 1)}

\* Authorization headers of /v1 requests ({} is no header)
CampusHeaders ==
  { {}, {<<>>}, {CAMPUS}, {<<"C","A","M","P","U","S">>},
    {BEARER \o CAMPUS},
    {<<"b","e","a","r","e","r"," "," ","C","a","m","p","u","s">>},
    {<<"B","E","A","R","E","R","\t","c","a","m","p","u","s">>} }

\* headers whose credential candidate starts with the proxy-token prefix,
\* each with that candidate
TokenRequests ==
  { [header |-> BEARER \o Token1, candidate |-> Token1],
    [header |-> Token1, candidate |-> Token1],
    [header |-> BEARER \o Token2, candidate |-> Token2],
    [header |-> Token2, candidate |-> Token2],
    [header |-> BEARER \o Token3, candidate |-> Token3],
    [header |-> BAYLEAF_TOKEN_PREFIX, candidate |-> BAYLEAF_TOKEN_PREFIX],
    [header |-> <<"b","e","a","r","e","r"," "," ">> \o Token1,
     candidate |-> Token1] }

TokenHeaders == {{x.header} : x \in TokenRequests}

OtherHeaders ==
  { {BEARER \o OrSecret(1)}, {OrSecret(1)}, {<<"B","e","a","r","e","r">>},
    {<<"b","e","a","r","e","r","\t">> \o OrSecret(2) \o <<" ">>},
    {<<"c","a","m","p","u","s","2">>},
    {<<"S","K","-","B","A","Y","L","E","A","F","-","0","1">>},
    {<<"B","a","s","i","c"," ">> \o Token1} }

AuthHeaders == CampusHeaders \cup TokenHeaders \cup OtherHeaders

InitAuth ==
  /\ \/ /\ user_keys = {} /\ orKeys = {} /\ nextToken = 0 /\ nextKey = 0
        /\ revokedTokens = {}
     \/ /\ user_keys = AuthRegistry
        /\ revokedTokens = {Token2}
        /\ orKeys = {OrKey(1, getKeyName("a"), FALSE),
                     OrKey(2, getKeyName("b"), FALSE)}
        /\ nextToken = 2 /\ nextKey = 2
  /\ pc = [p \in Procs |-> "idle"]
  /\ kind = [p \in Procs |-> "GET"]
  /\ session = [p \in Procs |-> NoSession]
  /\ row = [p \in Procs |-> {}]
  /\ revoked = [p \in Procs |-> {}]
  /\ orKeyRef = [p \in Procs |-> {}]
  /\ response = [p \in Procs |-> NoResponse]
  /\ branch = [p \in Procs |-> ""]
  /\ authHeader = [p \in Procs |-> {}]
  /\ onCampus = [p \in Procs |-> FALSE]
  /\ authResult = [p \in Procs |-> {}]
  /\ overlapped = [p \in Procs |-> {}]
  /\ replaced = {}
  /\ env = Env(SYSTEM_PROMPT_PREFIX, CAMPUS_SYSTEM_PREFIX)
  /\ request = [p \in Procs |-> {}]
  /\ outbound = [p \in Procs |-> {}]
  /\ sent = [p \in Procs |-> {}]

NextAuth ==
  \E p \in Procs, h \in AuthHeaders, c \in BOOLEAN : ProxyAuth(p, h, c)

SpecAuth == InitAuth /\ [][NextAuth]_vars

\* ------------------------------------------------------------ /v1 proxy
\* '\n\n'
BlankLine == <<"\n", "\n">>
CAMPUS_ANONYMOUS ==
  <<"c","a","m","p","u","s","-","a","n","o","n","y","m","o","u","s">>

\* { role, content } of a chat message
Message(role, content) == [role |-> role, content |-> content]

\* A request body.  `valid` says whether JSON.parse accepts the bytes; a
\* JSON object is its fields: messages, instructions and user (optional)
\* and the rest of the object (`model`, ...), which no handler reads.
JsonBody(messages, instructions, user, rest) ==
  [valid |-> TRUE, messages |-> messages, instructions |-> instructions,
   user |-> user, rest |-> rest]
MalformedBody(bytes) ==
  [valid |-> FALSE, messages |-> {}, instructions |-> {}, user |-> {},
   rest |-> bytes]

\* the inbound request: method, pathname as its segments, query string,
\* the Host header, the headers besides Host and Authorization, the body
Request(method, pathname, search, host, headers, body) ==
  [method |-> method, pathname |-> pathname, search |-> search,
   host |-> host, headers |-> headers, body |-> body]

\* the argument of fetch: method, path and query under OPENROUTER_API, the
\* Host and Authorization headers, the other headers, the body
Upstream(method, path, search, host, authorization, headers, body) ==
  [method |-> method, path |-> path, search |-> search, host |-> host,
   authorization |-> authorization, headers |-> headers, body |-> body]

\* JavaScript truthiness of an optional string: present and not ''
Truthy(field) == \E v \in field : v # <<>>

\* buildSystemPrefix with the campus suffix added in every mode
buildSystemPrefix_AnyMode(e, isCampusMode) ==
  IF e.CAMPUS_SYSTEM_PREFIX # <<>>
    THEN e.SYSTEM_PROMPT_PREFIX \o BlankLine \o e.CAMPUS_SYSTEM_PREFIX
    ELSE e.SYSTEM_PROMPT_PREFIX

\* buildSystemPrefix(env, isCampusMode)
buildSystemPrefix(e, isCampusMode) ==
  IF isCampusMode /\ e.CAMPUS_SYSTEM_PREFIX # <<>>
    THEN e.SYSTEM_PROMPT_PREFIX \o BlankLine \o e.CAMPUS_SYSTEM_PREFIX
    ELSE e.SYSTEM_PROMPT_PREFIX

\* the user field as the model writes an email
EmailString(email) == <<email>>

\* injectUser(body, auth)
injectUser(body, auth) ==
  IF Truthy(body.user) THEN body
  ELSE IF auth.userEmail # {}
    THEN [body EXCEPT !.user = {EmailString(e) : e \in auth.userEmail}]
  ELSE IF auth.isCampusMode
    THEN [body EXCEPT !.user = {CAMPUS_ANONYMOUS}]
  ELSE body

\* findIndex returning the last system message
findSystemIndex_Last(messages) ==
  IF \E i \in 1..Len(messages) : messages[i].role = "system"
    THEN CHOOSE i \in 1..Len(messages) :
           /\ messages[i].role = "system"
           /\ \A j \in (i + 1)..Len(messages) : messages[j].role # "system"
    ELSE 0

\* body.messages.findIndex(m => m.role === 'system'), counted from 1;
\* 0 when there is none
findSystemIndex(messages) ==
  IF \E i \in 1..Len(messages) : messages[i].role = "system"
    THEN CHOOSE i \in 1..Len(messages) :
           /\ messages[i].role = "system"
           /\ \A j \in 1..(i - 1) : messages[j].role # "system"
    ELSE 0

\* the chat-completions injection: prefix the first system message, or
\* unshift a new one; a body without a messages array is left alone
injectMessages(body, systemPrefix) ==
  [body EXCEPT !.messages =
     {IF findSystemIndex(m) > 0
        THEN [m EXCEPT ![findSystemIndex(m)].content =
                systemPrefix \o BlankLine \o @]
        ELSE <<Message("system", systemPrefix)>> \o m : m \in @}]

\* body.instructions = body.instructions
\*   ? systemPrefix + '\n\n' + body.instructions : systemPrefix
injectInstructions(body, systemPrefix) ==
  [body EXCEPT !.instructions =
     IF Truthy(@) THEN {systemPrefix \o BlankLine \o i : i \in @}
                  ELSE {systemPrefix}]

\* url.pathname.replace('/v1', ''): the sub-app is mounted at /v1, so the
\* first '/v1' of the pathname is its first segment
StripMount(pathname) == Tail(pathname)

\* the route Hono picks: post('/responses') before all('/*')
IsResponsesRoute(req) ==
  req.method = "POST" /\ StripMount(req.pathname) = <<"responses">>

\* path === '/chat/completions' && c.req.method === 'POST'
IsChatCompletions(req) ==
  req.method = "POST" /\ StripMount(req.pathname) = <<"chat", "completions">>

\* c.req.method !== 'GET' && c.req.method !== 'HEAD' ? c.req.raw.body
\*   : undefined
RawBody(req) == IF req.method \in {"GET", "HEAD"} THEN {} ELSE req.body

\* headers.delete('host') left out
ForwardedHost_Kept(req) == req.host

\* headers = new Headers(c.req.raw.headers); headers.delete('host')
ForwardedHost(req) == {}

\* forwardJson's headers besides Authorization
JSON_CONTENT_TYPE == "content-type: application/json"

\* A /v1 request arrives in a free slot and runs up to `await
\* resolveAuth(c)`.
ProxyReceive(p, req, header, campus) ==
  /\ Idle(p)
  /\ kind' = [kind EXCEPT ![p] = "PROXY"]
  /\ request' = [request EXCEPT ![p] = {req}]
  /\ authHeader' = [authHeader EXCEPT ![p] = header]
  /\ onCampus' = [onCampus EXCEPT ![p] = campus]
  /\ authResult' = [authResult EXCEPT ![p] = {}]
  /\ outbound' = [outbound EXCEPT ![p] = {}]
  /\ sent' = [sent EXCEPT ![p] = {}]
  /\ pc' = [pc EXCEPT ![p] = "resolve_auth"]
  /\ response' = [response EXCEPT ![p] = NoResponse]
  /\ branch' = [branch EXCEPT ![p] = ""]
  /\ session' = [session EXCEPT ![p] = NoSession]
  /\ Locals(p, {}, {}, {})
  /\ overlapped' = [q \in Procs |-> overlapped[q] \ {p}]
  /\ UNCHANGED <<user_keys, orKeys, nextToken, nextKey, revokedTokens,
                 replaced, env>>

\* the handler without `if (auth instanceof Response) return auth`
ProxyResolveAuth_NoReturn(p) ==
  /\ pc[p] = "resolve_auth"
  /\ LET res == resolveAuth(authHeader[p], onCampus[p], user_keys) IN
       /\ authResult' = [authResult EXCEPT ![p] = {res}]
       /\ \E req \in request[p] :
            pc' = [pc EXCEPT ![p] =
              IF IsResponsesRoute(req) \/ IsChatCompletions(req)
                THEN "read_body" ELSE "fetch"]
       /\ UNCHANGED <<response, branch, session, row, revoked, orKeyRef>>
  /\ UNCHANGED <<user_keys, orKeys, nextToken, nextKey, revokedTokens,
                 replaced, kind,
                 authHeader, onCampus, overlapped, ProxyState>>

\* auth = await resolveAuth(c); if (auth instanceof Response) return auth
ProxyResolveAuth(p) ==
  /\ pc[p] = "resolve_auth"
  /\ LET res == resolveAuth(authHeader[p], onCampus[p], user_keys) IN
       /\ authResult' = [authResult EXCEPT ![p] = {res}]
       /\ IF res.ok
            THEN /\ \E req \in request[p] :
                      pc' = [pc EXCEPT ![p] =
                        IF IsResponsesRoute(req) \/ IsChatCompletions(req)
                          THEN "read_body" ELSE "fetch"]
                 /\ UNCHANGED <<response, branch, session, row, revoked,
                                orKeyRef>>
            ELSE Finish(p, Resp(401, res.message, {}), "denied")
  /\ UNCHANGED <<user_keys, orKeys, nextToken, nextKey, revokedTokens,
                 replaced, kind,
                 authHeader, onCampus, overlapped, ProxyState>>

\* body = await c.req.json(), then the rewrite.  POST /responses answers
\* 400 when the parse throws; the catch-all logs it and falls through to
\* the simple proxy.
ProxyReadBody(p) ==
  /\ pc[p] = "read_body"
  /\ \E req \in request[p], auth \in authResult[p] :
       LET parsed == {b \in req.body : b.valid}
           systemPrefix == buildSystemPrefix(env, auth.isCampusMode)
       IN IF parsed = {}
            THEN IF IsResponsesRoute(req)
                   THEN /\ Finish(p, Resp(400,
                             "Invalid JSON in request body.", {}),
                             "invalid_json")
                        /\ UNCHANGED outbound
                   ELSE /\ Goto(p, "fetch", {}, {}, {})
                        /\ UNCHANGED outbound
            ELSE /\ Goto(p, "fetch", {}, {}, {})
                 /\ outbound' = [outbound EXCEPT ![p] =
                      {injectUser(IF IsResponsesRoute(req)
                                    THEN injectInstructions(b, systemPrefix)
                                    ELSE injectMessages(b, systemPrefix),
                                  auth) : b \in parsed}]
  /\ UNCHANGED <<user_keys, orKeys, nextToken, nextKey, revokedTokens,
                 replaced, kind,
                 authHeader, onCampus, authResult, overlapped, env, request,
                 sent>>

\* the request the handler passes to fetch: forwardJson for POST
\* /responses, the rewritten chat request, or the simple proxy
UpstreamRequest(req, auth, body) ==
  IF IsResponsesRoute(req)
    THEN Upstream("POST", <<"responses">>, "", {}, auth.authorization,
                  {JSON_CONTENT_TYPE}, body)
  ELSE IF body # {}
    THEN Upstream("POST", StripMount(req.pathname), req.search,
                  ForwardedHost(req), auth.authorization, req.headers, body)
  ELSE Upstream(req.method, StripMount(req.pathname), req.search,
                ForwardedHost(req), auth.authorization, req.headers,
                RawBody(req))

\* await fetch(...): the upstream's status is relayed.  After a failed
\* c.req.json() the simple proxy hands fetch the stream that the parse
\* attempt has read: the runtime either sends the bytes or throws a
\* TypeError, which app.onError turns into a 500.
ProxyFetch(p, status) ==
  /\ pc[p] = "fetch"
  /\ \E req \in request[p], auth \in authResult[p] :
       \/ /\ sent' = [sent EXCEPT ![p] =
                {UpstreamRequest(req, auth, outbound[p])}]
          /\ Finish(p, Resp(status, "", {}), "forwarded")
       \/ /\ IsChatCompletions(req) /\ outbound[p] = {}
          /\ status = 200
          /\ Finish(p, Resp(500, "Server Error", {}), "stream_used")
          /\ UNCHANGED sent
  /\ UNCHANGED <<user_keys, orKeys, nextToken, nextKey, revokedTokens,
                 replaced, kind,
                 authHeader, onCampus, authResult, overlapped, env, request,
                 outbound>>

\* ------------------------------------------------- the /v1 proxy alone
\* The /v1 handlers keep their state in locals and only read the registry,
\* so one slot shows all they do; the registry is AuthRegistry.
ProxySlots == {"p1"}

\* deployments with and without a campus suffix
ProxyEnvs ==
  {Env(SYSTEM_PROMPT_PREFIX, CAMPUS_SYSTEM_PREFIX),
   Env(SYSTEM_PROMPT_PREFIX, <<>>)}

\* no header, 'campus', an active token, a revoked token, an upstream key
ProxyHeaders ==
  { {}, {BEARER \o <<"C","a","m","p","u","s">>}, {BEARER \o Token1},
    {BEARER \o Token2}, {BEARER \o OrSecret(1)} }

UserHi == Message("user", <<"h","i">>)
SystemS == Message("system", <<"S">>)
SystemT == Message("system", <<"T">>)
Gpt == <<"g","p","t">>

ChatBodies ==
  { JsonBody({<<UserHi>>}, {}, {}, Gpt),
    JsonBody({<<SystemS, UserHi>>}, {}, {}, Gpt),
    JsonBody({<<UserHi, SystemS, SystemT>>}, {}, {<<"u">>}, Gpt),
    JsonBody({<<Message("system", <<>>)>>}, {}, {}, Gpt),
    JsonBody({<<>>}, {}, {}, Gpt),
    JsonBody({}, {}, {<<"u">>}, Gpt),
    JsonBody({<<UserHi>>}, {}, {<<>>}, Gpt),
    MalformedBody(<<"{","m">>) }

ResponsesBodies ==
  { JsonBody({}, {}, {}, Gpt),
    JsonBody({}, {<<"X">>}, {}, Gpt),
    JsonBody({}, {<<"X">>}, {<<"u">>}, Gpt),
    JsonBody({<<UserHi>>}, {<<>>}, {}, Gpt),
    JsonBody({}, {}, {<<>>}, Gpt),
    MalformedBody(<<"{","i">>) }

HOST == "api.bayleaf.dev"
InboundHeaders == {JSON_CONTENT_TYPE, "x-title: demo"}

\* POSTs to the two injection endpoints, and requests the proxy forwards
\* as they come
ProxyRequests ==
  {Request("POST", <<"v1", "chat", "completions">>, "", {HOST},
           InboundHeaders, {b}) : b \in ChatBodies}
  \cup
  {Request("POST", <<"v1", "responses">>, "", {HOST}, InboundHeaders, {b}) :
     b \in ResponsesBodies}
  \cup
  { Request("POST", <<"v1", "chat", "completions">>, "?a=1", {HOST},
            InboundHeaders, {JsonBody({<<UserHi>>}, {}, {}, Gpt)}),
    Request("GET", <<"v1", "models">>, "?limit=1", {HOST}, {}, {}),
    Request("GET", <<"v1", "chat", "completions">>, "", {HOST}, {}, {}),
    Request("POST", <<"v1", "embeddings">>, "", {HOST}, InboundHeaders,
            {JsonBody({<<SystemS, UserHi>>}, {<<"X">>}, {}, Gpt)}),
    Request("POST", <<"v1", "completions">>, "", {HOST}, InboundHeaders,
            {MalformedBody(<<"{","p">>)}),
    Request("PUT", <<"v1", "responses">>, "", {HOST}, InboundHeaders,
            {JsonBody({}, {<<"X">>}, {}, Gpt)}),
    Request("DELETE", <<"v1", "responses", "r1">>, "", {HOST}, {}, {}) }

\* what the upstream answers
UpstreamStatuses == {200, 401}

InitProxy ==
  /\ user_keys = AuthRegistry
  /\ revokedTokens = {Token2}
  /\ orKeys = {OrKey(1, getKeyName("a"), FALSE),
               OrKey(2, getKeyName("b"), FALSE)}
  /\ nextToken = 2 /\ nextKey = 2
  /\ pc = [p \in Procs |-> "idle"]
  /\ kind = [p \in Procs |-> "GET"]
  /\ session = [p \in Procs |-> NoSession]
  /\ row = [p \in Procs |-> {}]
  /\ revoked = [p \in Procs |-> {}]
  /\ orKeyRef = [p \in Procs |-> {}]
  /\ response = [p \in Procs |-> NoResponse]
  /\ branch = [p \in Procs |-> ""]
  /\ authHeader = [p \in Procs |-> {}]
  /\ onCampus = [p \in Procs |-> FALSE]
  /\ authResult = [p \in Procs |-> {}]
  /\ overlapped = [p \in Procs |-> {}]
  /\ replaced = {}
  /\ env \in ProxyEnvs
  /\ request = [p \in Procs |-> {}]
  /\ outbound = [p \in Procs |-> {}]
  /\ sent = [p \in Procs |-> {}]

NextProxy ==
  \/ \E p \in ProxySlots, req \in ProxyRequests, h \in ProxyHeaders,
        c \in BOOLEAN : ProxyReceive(p, req, h, c)
  \/ \E p \in ProxySlots : ProxyResolveAuth(p)
  \/ \E p \in ProxySlots : ProxyReadBody(p)
  \/ \E p \in ProxySlots, st \in UpstreamStatuses : ProxyFetch(p, st)

SpecProxy == InitProxy /\ [][NextProxy]_vars

\* ------------------------------------------- the /key routes, two users
\* The behaviours of Spec over a registry in which a second user, who is
\* not signed in anywhere, holds an active record with an upstream key of
\* their own.
OtherToken == generateBayleafToken(0)
OtherRow == Row("b", OtherToken, 0, OrSecret(0), 0)

InitTwoUsers ==
  /\ user_keys = {OtherRow}
  /\ orKeys = {OrKey(0, getKeyName("b"), FALSE)}
  /\ nextToken = 0
  /\ nextKey = 0
  /\ pc = [p \in Procs |-> "idle"]
  /\ kind = [p \in Procs |-> "GET"]
  /\ session = [p \in Procs |-> NoSession]
  /\ row = [p \in Procs |-> {}]
  /\ revoked = [p \in Procs |-> {}]
  /\ orKeyRef = [p \in Procs |-> {}]
  /\ response = [p \in Procs |-> NoResponse]
  /\ branch = [p \in Procs |-> ""]
  /\ authHeader = [p \in Procs |-> {}]
  /\ onCampus = [p \in Procs |-> FALSE]
  /\ authResult = [p \in Procs |-> {}]
  /\ revokedTokens = {}
  /\ overlapped = [p \in Procs |-> {}]
  /\ replaced = {}
  /\ env = Env(SYSTEM_PROMPT_PREFIX, CAMPUS_SYSTEM_PREFIX)
  /\ request = [p \in Procs |-> {}]
  /\ outbound = [p \in Procs |-> {}]
  /\ sent = [p \in Procs |-> {}]

SpecTwoUsers == InitTwoUsers /\ [][Next]_vars

\* ------------------------------------------------- campus IP ranges
\* What a call ends with: the value it returns, or the RangeError that
\* `Array(missing)` throws for a negative length.
Returned(v) == [threw |-> FALSE, value |-> v]
Thrown == [threw |-> TRUE, value |-> FALSE]

\* String.prototype.split for a one-character separator
RECURSIVE split(_, _)
split(s, sep) ==
  IF \E i \in 1..Len(s) : s[i] = sep
    THEN LET i == CHOOSE j \in 1..Len(s) :
                    s[j] = sep /\ \A k \in 1..(j - 1) : s[k] # sep
         IN <<SubSeq(s, 1, i - 1)>> \o split(SubSeq(s, i + 1, Len(s)), sep)
    ELSE <<s>>

\* Array.prototype.filter(p => p !== '')
RECURSIVE filterNonEmpty(_)
filterNonEmpty(parts) ==
  IF parts = <<>> THEN <<>>
  ELSE IF Head(parts) = <<>> THEN filterNonEmpty(Tail(parts))
  ELSE <<Head(parts)>> \o filterNonEmpty(Tail(parts))

\* ip.indexOf('::'), counted from 1; 0 when there is none
indexOfDoubleColon(s) ==
  IF \E i \in 1..(Len(s) - 1) : s[i] = ":" /\ s[i + 1] = ":"
    THEN CHOOSE i \in 1..(Len(s) - 1) :
           /\ s[i] = ":" /\ s[i + 1] = ":"
           /\ \A k \in 1..(i - 1) : ~(s[k] = ":" /\ s[k + 1] = ":")
    ELSE 0

HexUpper == <<"0","1","2","3","4","5","6","7","8","9","A","B","C","D","E","F">>

\* the value of a digit character, 16 for any other character
DigitOf(c) ==
  IF \E i \in 1..16 : HexDigits[i] = c \/ HexUpper[i] = c
    THEN (CHOOSE i \in 1..16 : HexDigits[i] = c \/ HexUpper[i] = c) - 1
    ELSE 16

\* the longest prefix of s made of digits of the radix
RECURSIVE DigitPrefix(_, _)
DigitPrefix(s, radix) ==
  IF s # <<>> /\ DigitOf(Head(s)) < radix
    THEN <<Head(s)>> \o DigitPrefix(Tail(s), radix)
    ELSE <<>>

RECURSIVE DigitsValue(_, _)
DigitsValue(z, radix) ==
  IF z = <<>> THEN 0
  ELSE DigitsValue(SubSeq(z, 1, Len(z) - 1), radix) * radix
         + DigitOf(z[Len(z)])

\* parseInt(string, radix) for radix 10 and 16: leading whitespace, a sign,
\* `0x` when the radix is 16, then the longest run of digits; whatever
\* follows the digits is ignored.  {} is NaN; `string` is {} for undefined.
parseInt(string, radix) ==
  IF string = {} THEN {}
  ELSE
    LET s == TrimStart(CHOOSE x \in string : TRUE)
        signed == s # <<>> /\ Head(s) \in {"+", "-"}
        unsigned == IF signed THEN Tail(s) ELSE s
        body == IF /\ radix = 16 /\ Len(unsigned) >= 2
                   /\ unsigned[1] = "0" /\ unsigned[2] \in {"x", "X"}
                  THEN SubSeq(unsigned, 3, Len(unsigned)) ELSE unsigned
        z == DigitPrefix(body, radix)
    IN IF z = <<>> THEN {}
       ELSE IF signed /\ Head(s) = "-" THEN {0 - DigitsValue(z, radix)}
       ELSE {DigitsValue(z, radix)}

\* A bigint the code builds is held as its binary digits, most significant
\* first: (result << w) | BigInt(num) appends the w binary digits of num.
ToBits(num, w) == [i \in 1..w |-> (num \div (2 ^ (w - i))) % 2]

\* the loop of ipv4ToBigInt and ipv6ToBigInt: null ({}) at the first part
\* that is NaN or out of range
RECURSIVE partsToBigInt(_, _, _, _)
partsToBigInt(parts, radix, w, result) ==
  IF parts = <<>> THEN {result}
  ELSE LET part == IF radix = 16 /\ Head(parts) = <<>>
                     THEN <<"0">> ELSE Head(parts)
           num == parseInt({part}, radix)
       IN IF num = {} \/ \E n \in num : n < 0 \/ n > (2 ^ w) - 1
            THEN {}
            ELSE partsToBigInt(Tail(parts), radix, w,
                   result \o ToBits(CHOOSE n \in num : TRUE, w))

\* ipv4ToBigInt(ip)
ipv4ToBigInt(ip) ==
  LET parts == split(ip, ".") IN
    IF Len(parts) # 4 THEN Returned({})
    ELSE Returned(partsToBigInt(parts, 10, 8, <<>>))

\* ipv6ToBigInt(ip)
ipv6ToBigInt(ip) ==
  LET d == indexOfDoubleColon(ip)
      before == filterNonEmpty(split(SubSeq(ip, 1, d - 1), ":"))
      after == filterNonEmpty(split(SubSeq(ip, d + 2, Len(ip)), ":"))
      missing == 8 - Len(before) - Len(after)
      parts == IF d # 0
                 THEN before \o [i \in 1..missing |-> <<"0">>] \o after
                 ELSE split(ip, ":")
  IN IF d # 0 /\ missing < 0 THEN Thrown
     ELSE IF Len(parts) # 8 THEN Returned({})
     ELSE Returned(partsToBigInt(parts, 16, 16, <<>>))

\* ~0n << BigInt(n), cut to the width of the operand
ShiftLeft(bits, n) ==
  [i \in 1..Len(bits) |-> IF i + n <= Len(bits) THEN bits[i + n] ELSE 0]

\* a & b on two bigints of one width
BitAnd(a, b) == [i \in 1..Len(a) |-> a[i] * b[i]]

\* the mask that keeps whole octets only
CidrMask_WholeOctets(prefixLen, width) ==
  [i \in 1..width |-> IF i <= 8 * (prefixLen \div 8) THEN 1 ELSE 0]

\* mask: prefixLen === 0 ? 0n
\*         : (~0n << BigInt(width - prefixLen)) & ((1n << width) - 1n)
CidrMask(prefixLen, width) ==
  IF prefixLen = 0 THEN [i \in 1..width |-> 0]
  ELSE ShiftLeft([i \in 1..width |-> 1], width - prefixLen)

\* ip.includes(':')
includesColon(s) == \E i \in 1..Len(s) : s[i] = ":"

\* the two branches of isIPInCIDR, after the family test
matchInFamily(ipVal, rangeVal, prefixLen, width) ==
  IF ipVal.threw \/ rangeVal.threw THEN Thrown
  ELSE IF ipVal.value = {} \/ rangeVal.value = {} THEN Returned(FALSE)
  ELSE IF prefixLen = {} \/ \E n \in prefixLen : n < 0 \/ n > width
    THEN Returned(FALSE)
  ELSE LET mask == CidrMask(CHOOSE n \in prefixLen : TRUE, width)
           a == CHOOSE v \in ipVal.value : TRUE
           b == CHOOSE v \in rangeVal.value : TRUE
       IN Returned(BitAnd(a, mask) = BitAnd(b, mask))

\* isIPInCIDR(ip, cidr)
isIPInCIDR(ip, cidr) ==
  LET parts == split(cidr, "/")
      rangeIP == parts[1]
      prefixLenStr == IF Len(parts) >= 2 THEN {parts[2]} ELSE {}
      prefixLen == parseInt(prefixLenStr, 10)
      isV6 == includesColon(ip)
      isRangeV6 == includesColon(rangeIP)
  IN IF isV6 # isRangeV6 THEN Returned(FALSE)
     ELSE IF isV6
       THEN matchInFamily(ipv6ToBigInt(ip), ipv6ToBigInt(rangeIP),
                          prefixLen, 128)
       ELSE matchInFamily(ipv4ToBigInt(ip), ipv4ToBigInt(rangeIP),
                          prefixLen, 32)

\* isOnCampus: ranges.some(range => isIPInCIDR(ip, range)), in list order
RECURSIVE someInCIDR(_, _)
someInCIDR(ip, ranges) ==
  IF ranges = <<>> THEN Returned(FALSE)
  ELSE LET r == isIPInCIDR(ip, Head(ranges)) IN
    IF r.threw THEN Thrown
    ELSE IF r.value THEN Returned(TRUE)
    ELSE someInCIDR(ip, Tail(ranges))

\* rangesConfig.split(',').map(r => r.trim()).filter(r => r)
rangeList(rangesConfig) ==
  LET parts == split(rangesConfig, ",") IN
    filterNonEmpty([i \in 1..Len(parts) |-> trim(parts[i])])

\* isOnCampus(ip, rangesConfig)
isOnCampus(ip, rangesConfig) ==
  IF rangesConfig = <<>> \/ ip = <<>> THEN Returned(FALSE)
  ELSE someInCIDR(ip, rangeList(rangesConfig))

\* the headers getClientIP reads, each {} when the request has none
ClientHeaders(cf, xff) == [cf |-> cf, xff |-> xff]

\* '127.0.0.1'
LOCALHOST == <<"1","2","7",".","0",".","0",".","1">>

\* getClientIP(request)
getClientIP(headers) ==
  IF Truthy(headers.cf) THEN CHOOSE v \in headers.cf : TRUE
  ELSE LET first == {trim(split(v, ",")[1]) : v \in headers.xff} IN
    IF Truthy(first) THEN CHOOSE v \in first : TRUE ELSE LOCALHOST

\* the bindings isCampusPassEligible reads, each {} when not configured
CampusEnv(ranges, poolKey) ==
  [CAMPUS_IP_RANGES |-> ranges, CAMPUS_POOL_KEY |-> poolKey]

\* isCampusPassEligible(request, env), from the request's headers and the
\* bindings
isCampusPassEligibleFor(headers, e) ==
  IF ~Truthy(e.CAMPUS_IP_RANGES) \/ ~Truthy(e.CAMPUS_POOL_KEY)
    THEN Returned(FALSE)
    ELSE isOnCampus(getClientIP(headers),
                    CHOOSE v \in e.CAMPUS_IP_RANGES : TRUE)

\* GET /: the landing page, rendered with the outcome of
\* isCampusPassEligible; a signed-in visitor is redirected; an exception
\* ends in app.onError.  The handler runs in one step (getSession reads
\* the cookie only); the slot keeps the headers the handler read.
Landing(p, s, headers) ==
  /\ Idle(p)
  /\ LET res == isCampusPassEligibleFor(headers, env) IN
       IF s # NoSession
         THEN /\ branch' = [branch EXCEPT ![p] = "redirect"]
              /\ response' = [response EXCEPT ![p] = Resp(302, "", {})]
              /\ onCampus' = [onCampus EXCEPT ![p] = FALSE]
              /\ request' = [request EXCEPT ![p] = {}]
         ELSE IF res.threw
           THEN /\ branch' = [branch EXCEPT ![p] = "threw"]
                /\ response' = [response EXCEPT ![p] =
                                  Resp(500, "Server Error", {})]
                /\ onCampus' = [onCampus EXCEPT ![p] = FALSE]
                /\ request' = [request EXCEPT ![p] = {headers}]
           ELSE /\ branch' = [branch EXCEPT ![p] = "landing"]
                /\ response' = [response EXCEPT ![p] = Resp(200, "", {})]
                /\ onCampus' = [onCampus EXCEPT ![p] = res.value]
                /\ request' = [request EXCEPT ![p] = {headers}]
  /\ pc' = [pc EXCEPT ![p] = "done"]
  /\ kind' = [kind EXCEPT ![p] = "LANDING"]
  /\ session' = [session EXCEPT ![p] = s]
  /\ Locals(p, {}, {}, {})
  /\ overlapped' = [q \in Procs |-> overlapped[q] \ {p}]
  /\ UNCHANGED <<user_keys, orKeys, nextToken, nextKey, revokedTokens,
                 replaced, authHeader, authResult, env, outbound, sent>>

\* ------------------------------------------------- campus pass inputs
\* An address in the notations ipv4ToBigInt and ipv6ToBigInt document
\* (dotted decimal; full and compressed groups of hexadecimal digits), with
\* its family and its value as octets or 16-bit groups.
Address(text, family, groups) ==
  [text |-> text, family |-> family, groups |-> groups]

Addresses ==
    \* '128.114.5.9'
  { Address(<<"1","2","8",".","1","1","4",".","5",".","9">>,
            4, <<128, 114, 5, 9>>),
    \* '128.114.4.0'
    Address(<<"1","2","8",".","1","1","4",".","4",".","0">>,
            4, <<128, 114, 4, 0>>),
    \* '128.115.0.1'
    Address(<<"1","2","8",".","1","1","5",".","0",".","1">>,
            4, <<128, 115, 0, 1>>),
    \* '0.0.0.0'
    Address(<<"0",".","0",".","0",".","0">>, 4, <<0, 0, 0, 0>>),
    \* '255.255.255.255'
    Address(<<"2","5","5",".","2","5","5",".","2","5","5",".","2","5","5">>,
            4, <<255, 255, 255, 255>>),
    \* '127.0.0.1'
    Address(<<"1","2","7",".","0",".","0",".","1">>, 4, <<127, 0, 0, 1>>),
    \* '2607:f5f0::1'
    Address(<<"2","6","0","7",":","f","5","f","0",":",":","1">>,
            6, <<9735, 62960, 0, 0, 0, 0, 0, 1>>),
    \* '2607:F5F0:0:0:0:0:0:0'
    Address(<<"2","6","0","7",":","F","5","F","0",":","0",":","0",":","0",":",
              "0",":","0",":","0">>,
            6, <<9735, 62960, 0, 0, 0, 0, 0, 0>>),
    \* '2607:f5f0:8000::'
    Address(<<"2","6","0","7",":","f","5","f","0",":","8","0","0","0",":",
              ":">>,
            6, <<9735, 62960, 32768, 0, 0, 0, 0, 0>>),
    \* '2607:f5f1::2'
    Address(<<"2","6","0","7",":","f","5","f","1",":",":","2">>,
            6, <<9735, 62961, 0, 0, 0, 0, 0, 2>>),
    \* '::'
    Address(<<":",":">>, 6, <<0, 0, 0, 0, 0, 0, 0, 0>>),
    \* 'ffff:ffff:ffff:ffff:ffff:ffff:ffff:ffff'
    Address(<<"f","f","f","f",":","f","f","f","f",":","f","f","f","f",":","f",
              "f","f","f",":","f","f","f","f",":","f","f","f","f",":","f","f",
              "f","f",":","f","f","f","f">>,
            6, <<65535, 65535, 65535, 65535, 65535, 65535, 65535, 65535>>) }

\* the prefix lengths of the ranges, per family
PrefixLengths(family) ==
  IF family = 4 THEN {0, 1, 8, 16, 22, 23, 31, 32}
  ELSE {0, 1, 16, 32, 33, 64, 127, 128}

\* a number below 1000 in decimal digits
Decimal(n) ==
  IF n < 10 THEN <<HexDigits[n + 1]>>
  ELSE IF n < 100
    THEN <<HexDigits[(n \div 10) + 1], HexDigits[(n % 10) + 1]>>
  ELSE <<HexDigits[(n \div 100) + 1], HexDigits[((n \div 10) % 10) + 1],
         HexDigits[(n % 10) + 1]>>

\* the addresses ranges are written over
RangeBases ==
  {a \in Addresses : a.groups[2] \in {114, 62960} \/ a.groups[1] = 0}

\* base/prefix, with the base address and the prefix length it denotes
Ranges ==
  UNION { { [text |-> a.text \o <<"/">> \o Decimal(n),
             base |-> a, prefixLen |-> n] : n \in PrefixLengths(a.family) } :
          a \in RangeBases }

\* entries of CAMPUS_IP_RANGES that are no range: a prefix length out of
\* range, negative or missing, an octet out of range, too many groups
\* around '::', a character that is no digit
MalformedRanges ==
    \* '128.114.0.0/33'
  { <<"1","2","8",".","1","1","4",".","0",".","0","/","3","3">>,
    \* '128.114.0.0'
    <<"1","2","8",".","1","1","4",".","0",".","0">>,
    \* '128.114.0.0/-1'
    <<"1","2","8",".","1","1","4",".","0",".","0","/","-","1">>,
    \* '999.114.0.0/16'
    <<"9","9","9",".","1","1","4",".","0",".","0","/","1","6">>,
    \* '128.114.5.9x/32'
    <<"1","2","8",".","1","1","4",".","5",".","9","x","/","3","2">>,
    \* '128.114.4.0/22x'
    <<"1","2","8",".","1","1","4",".","4",".","0","/","2","2","x">>,
    \* '2607:f5f0::/129'
    <<"2","6","0","7",":","f","5","f","0",":",":","/","1","2","9">>,
    \* '2607:f5f0::g/32'
    <<"2","6","0","7",":","f","5","f","0",":",":","g","/","3","2">>,
    \* '1::2::3/0'
    <<"1",":",":","2",":",":","3","/","0">>,
    \* '1:2:3:4:5:6:7:8::9/64'
    <<"1",":","2",":","3",":","4",":","5",":","6",":","7",":","8",":",":","9",
      "/","6","4">> }

\* client addresses that are no address
MalformedAddresses ==
    \* '300.1.1.1'
  { <<"3","0","0",".","1",".","1",".","1">>,
    \* '128.114.5'
    <<"1","2","8",".","1","1","4",".","5">>,
    \* '128.114.5.9x'
    <<"1","2","8",".","1","1","4",".","5",".","9","x">>,
    \* '1:2:3:4:5:6:7:8::9'
    <<"1",":","2",":","3",":","4",":","5",":","6",":","7",":","8",":",":",
      "9">> }

\* entries joined as CAMPUS_IP_RANGES lists them
RECURSIVE Join(_)
Join(entries) ==
  IF Len(entries) = 1 THEN Head(entries)
  ELSE Head(entries) \o <<",", " ">> \o Join(Tail(entries))

\* the ranges the lists are built around
ListedRanges ==
  {r.text : r \in {x \in Ranges :
     \/ x.base.groups[1] = 0 /\ x.prefixLen = 0
     \/ /\ x.base.groups[1] # 0 /\ x.base.groups[3] \in {0, 4}
        /\ x.base.groups[Len(x.base.groups)] = 0
        /\ x.prefixLen \in {22, 32}}}

\* the values of CAMPUS_IP_RANGES: not set, empty, blank entries only, one
\* range, and lists of two entries of which one may be malformed
RangeLists ==
  {<<r.text>> : r \in Ranges}
    \cup {<<m>> : m \in MalformedRanges}
    \cup {<<m, r>> : m \in MalformedRanges, r \in ListedRanges}
    \cup {<<r, m>> : m \in MalformedRanges, r \in ListedRanges}
    \cup {<<r, s>> : r \in ListedRanges, s \in ListedRanges}

RangeConfigs ==
  {{}, {<<>>}, {<<" ", ",", " ">>}} \cup {{Join(l)} : l \in RangeLists}

\* the bindings: every value of CAMPUS_IP_RANGES with the pool key set,
\* and without a pool key (not set, or empty) the values of up to one range
CampusEnvs ==
  {CampusEnv(r, {CAMPUS_POOL_KEY}) : r \in RangeConfigs}
    \cup {CampusEnv(r, k) :
            r \in {{}, {<<>>}} \cup {{x} : x \in ListedRanges},
            k \in {{}, {<<>>}}}

\* the headers of the visitors
LandingHeaders ==
  {ClientHeaders({a.text}, {}) : a \in Addresses}
    \cup {ClientHeaders({m}, {}) : m \in MalformedAddresses}
    \cup { ClientHeaders({}, {}),
           \* '128.114.5.9, 1.1.1.1'
           ClientHeaders({}, {<<"1","2","8",".","1","1","4",".","5",".","9",
                               ",", " ", "1",".","1",".","1",".","1">>}),
           \* ' ,128.114.5.9'
           ClientHeaders({<<>>}, {<<" ", ",", "1","2","8",".","1","1","4",
                                    ".","5",".","9">>}) }

InitCampus ==
  /\ user_keys = {} /\ orKeys = {} /\ nextToken = 0 /\ nextKey = 0
  /\ revokedTokens = {}
  /\ pc = [p \in Procs |-> "idle"]
  /\ kind = [p \in Procs |-> "GET"]
  /\ session = [p \in Procs |-> NoSession]
  /\ row = [p \in Procs |-> {}]
  /\ revoked = [p \in Procs |-> {}]
  /\ orKeyRef = [p \in Procs |-> {}]
  /\ response = [p \in Procs |-> NoResponse]
  /\ branch = [p \in Procs |-> ""]
  /\ authHeader = [p \in Procs |-> {}]
  /\ onCampus = [p \in Procs |-> FALSE]
  /\ authResult = [p \in Procs |-> {}]
  /\ overlapped = [p \in Procs |-> {}]
  /\ replaced = {}
  /\ env \in CampusEnvs
  /\ request = [p \in Procs |-> {}]
  /\ outbound = [p \in Procs |-> {}]
  /\ sent = [p \in Procs |-> {}]

NextCampus ==
  \E p \in ProxySlots, s \in {NoSession} \cup SignedIn,
     h \in LandingHeaders : Landing(p, s, h)

SpecCampus == InitCampus /\ [][NextCampus]_vars

\* ----------------------------------------------------- session tokens
\* A JavaScript string that gets encoded (a payload, a secret, a name) is
\* the sequence of its code points; the text of a token is a sequence of
\* characters as elsewhere.
BASE64 ==
  <<"A","B","C","D","E","F","G","H","I","J","K","L","M","N","O","P",
    "Q","R","S","T","U","V","W","X","Y","Z","a","b","c","d","e","f",
    "g","h","i","j","k","l","m","n","o","p","q","r","s","t","u","v",
    "w","x","y","z","0","1","2","3","4","5","6","7","8","9","+","/">>

\* the character of a 6-bit value, and the value of a character
Base64Char(v) == BASE64[v + 1]
Base64Value(c) == (CHOOSE i \in 1..64 : BASE64[i] = c) - 1

\* btoa on a string of bytes: three bytes to four characters, '=' padding
RECURSIVE btoaBytes(_)
btoaBytes(b) ==
  IF b = <<>> THEN <<>>
  ELSE IF Len(b) = 1
    THEN <<Base64Char(b[1] \div 4), Base64Char((b[1] % 4) * 16), "=", "=">>
  ELSE IF Len(b) = 2
    THEN <<Base64Char(b[1] \div 4),
           Base64Char(((b[1] % 4) * 16) + (b[2] \div 16)),
           Base64Char((b[2] % 16) * 4), "=">>
  ELSE <<Base64Char(b[1] \div 4),
         Base64Char(((b[1] % 4) * 16) + (b[2] \div 16)),
         Base64Char(((b[2] % 16) * 4) + (b[3] \div 64)),
         Base64Char(b[3] % 64)>> \o btoaBytes(SubSeq(b, 4, Len(b)))

\* btoa(string): InvalidCharacterError for a code point above 0xFF
btoa(string) ==
  IF \E i \in 1..Len(string) : string[i] > 255 THEN Thrown
  ELSE Returned(btoaBytes(string))

\* the bytes of 6-bit values; of a last group of two or three values the
\* low 4 or 2 bits are dropped without a test
RECURSIVE decodeValues(_)
decodeValues(v) ==
  IF Len(v) < 2 THEN <<>>
  ELSE IF Len(v) = 2 THEN <<(v[1] * 4) + (v[2] \div 16)>>
  ELSE IF Len(v) = 3
    THEN <<(v[1] * 4) + (v[2] \div 16), ((v[2] % 16) * 16) + (v[3] \div 4)>>
  ELSE <<(v[1] * 4) + (v[2] \div 16), ((v[2] % 16) * 16) + (v[3] \div 4),
         ((v[3] % 4) * 64) + v[4]>> \o decodeValues(SubSeq(v, 5, Len(v)))

\* data without ASCII whitespace
RECURSIVE stripWhitespace(_)
stripWhitespace(data) ==
  IF data = <<>> THEN <<>>
  ELSE IF Head(data) \in {" ", "\t", "\n", "\r", "\f"}
    THEN stripWhitespace(Tail(data))
  ELSE <<Head(data)>> \o stripWhitespace(Tail(data))

\* atob(data), the forgiving-base64 decode: whitespace is removed, one or
\* two '=' are removed from a length that is a multiple of 4;
\* InvalidCharacterError for a length that is 1 modulo 4 and for any
\* character outside the alphabet
atob(data) ==
  LET s == stripWhitespace(data)
      n == Len(s)
      unpadded ==
        IF n > 0 /\ n % 4 = 0 /\ s[n] = "="
          THEN IF s[n - 1] = "=" THEN SubSeq(s, 1, n - 2)
               ELSE SubSeq(s, 1, n - 1)
          ELSE s
  IN IF Len(unpadded) % 4 = 1 THEN Thrown
     ELSE IF \E i \in 1..Len(unpadded) :
               \A j \in 1..64 : BASE64[j] # unpadded[i]
       THEN Thrown
     ELSE Returned(decodeValues(
            [i \in 1..Len(unpadded) |-> Base64Value(unpadded[i])]))

\* TextEncoder.encode: UTF-8 of a string of the basic plane
RECURSIVE encode(_)
encode(string) ==
  IF string = <<>> THEN <<>>
  ELSE LET c == Head(string) IN
    (IF c < 128 THEN <<c>>
     ELSE IF c < 2048 THEN <<192 + (c \div 64), 128 + (c % 64)>>
     ELSE <<224 + (c \div 4096), 128 + ((c \div 64) % 64), 128 + (c % 64)>>)
      \o encode(Tail(string))

\* the length of the digest as modelled: like the 32 bytes of SHA-256 it
\* leaves two bytes over when taken three at a time
DigestLen == 50

\* crypto.subtle.sign('HMAC', key, data).  HMAC-SHA-256 is taken for a
\* function without collisions: the digest spells out the key and the
\* data, each after its length, and is filled up with zeros.
HMAC(secret, data) ==
  LET digest == <<Len(encode(secret))>> \o encode(secret)
                  \o <<Len(data)>> \o data
  IN [i \in 1..DigestLen |-> IF i <= Len(digest) THEN digest[i] ELSE 0]

\* { email, name, picture?, exp }
Session(email, name, picture, exp) ==
  [email |-> email, name |-> name, picture |-> picture, exp |-> exp]

\* a JSON string literal: '"' and '\' are escaped
RECURSIVE escape(_)
escape(string) ==
  IF string = <<>> THEN <<>>
  ELSE (IF Head(string) \in {34, 92} THEN <<92, Head(string)>>
        ELSE <<Head(string)>>) \o escape(Tail(string))
quote(string) == <<34>> \o escape(string) \o <<34>>

\* a number below 100 as JSON writes it
number(n) ==
  IF n < 10 THEN <<48 + n>> ELSE <<48 + (n \div 10), 48 + (n % 10)>>

\* JSON.stringify(session): {"email":...,"name":...,"picture":...,"exp":...}
\* with the property names as code points; an undefined picture is left out
stringify(s) ==
  <<123, 34, 101, 109, 97, 105, 108, 34, 58>> \o quote(s.email)
    \o <<44, 34, 110, 97, 109, 101, 34, 58>> \o quote(s.name)
    \o (IF s.picture = {} THEN <<>>
        ELSE <<44, 34, 112, 105, 99, 116, 117, 114, 101, 34, 58>>
               \o quote(CHOOSE v \in s.picture : TRUE))
    \o <<44, 34, 101, 120, 112, 34, 58>> \o number(s.exp) \o <<125>>

\* createSessionToken(session, secret)
createSessionToken(s, secret) ==
  LET payload == stringify(s)
      signature == HMAC(secret, encode(payload))
      sigBase64 == btoa(signature)
      payloadBase64 == btoa(payload)
  IN IF sigBase64.threw \/ payloadBase64.threw THEN Thrown
     ELSE Returned(payloadBase64.value \o <<".">> \o sigBase64.value)

\* the sessions the callback makes: email, display name, picture, expiry
\* 'a'; 'J', 'é', '李' and 'J"'; 'p'
Sessions ==
  {Session(<<97>>, n, {}, e) :
     n \in {<<74>>, <<233>>, <<26446>>, <<74, 34>>}, e \in {1, 2}}
    \cup {Session(<<97>>, <<74>>, {<<112>>}, 2)}

\* JSON.parse(payload) as Session: the session that is written as the
\* payload (JSON.parse inverts JSON.stringify), SyntaxError for any other
\* text
parse(payload) ==
  LET written == {s \in Sessions : stringify(s) = payload} IN
    IF written = {} THEN Thrown ELSE Returned(CHOOSE s \in written : TRUE)

\* what verifySessionToken returns, null being {}, with the statement it
\* returned from
Verified(value, stage) == [threw |-> FALSE, value |-> value, stage |-> stage]

\* verifySessionToken(token, secret) at Date.now() = now; every exception
\* inside is caught and null returned
verifySessionToken(token, secret, now) ==
  LET parts == split(token, ".")
      payloadB64 == parts[1]
      sigB64 == IF Len(parts) >= 2 THEN {parts[2]} ELSE {}
  IN IF payloadB64 = <<>> \/ ~Truthy(sigB64)
       THEN Verified({}, "missing_part")
     ELSE
       LET payload == atob(payloadB64)
           signature == atob(CHOOSE x \in sigB64 : TRUE)
       IN IF payload.threw \/ signature.threw
            THEN Verified({}, "undecodable")
          ELSE IF signature.value # HMAC(secret, encode(payload.value))
            THEN Verified({}, "bad_signature")
          ELSE LET parsed == parse(payload.value) IN
            IF parsed.threw THEN Verified({}, "unparseable")
            ELSE IF parsed.value.exp < now THEN Verified({}, "expired")
            ELSE Verified({parsed.value}, "valid")

\* the binding the tokens are signed with
SessionEnv(secret) == [OIDC_CLIENT_SECRET |-> secret]

\* GET /callback from the point where the user's email has passed the
\* domain test: the session is signed and set as the cookie of the
\* redirect; an exception ends in app.onError
CreateSession(p, s) ==
  /\ Idle(p)
  /\ LET token == createSessionToken(s, env.OIDC_CLIENT_SECRET) IN
       IF token.threw
         THEN /\ branch' = [branch EXCEPT ![p] = "threw"]
              /\ response' = [response EXCEPT ![p] =
                                Resp(500, "Server Error", {})]
         ELSE /\ branch' = [branch EXCEPT ![p] = "signed_in"]
              /\ response' = [response EXCEPT ![p] =
                                Resp(302, "", {token.value})]
  /\ request' = [request EXCEPT ![p] = {s}]
  /\ authResult' = [authResult EXCEPT ![p] = {}]
  /\ pc' = [pc EXCEPT ![p] = "done"]
  /\ kind' = [kind EXCEPT ![p] = "CALLBACK"]
  /\ session' = [session EXCEPT ![p] = NoSession]
  /\ Locals(p, {}, {}, {})
  /\ overlapped' = [q \in Procs |-> overlapped[q] \ {p}]
  /\ UNCHANGED <<user_keys, orKeys, nextToken, nextKey, revokedTokens,
                 replaced, authHeader, onCampus, env, outbound, sent>>

\* getSession(c) for a request whose cookie is `token`, at time `now`: the
\* slot keeps what verifySessionToken returned
GetSession(p, token, now) ==
  /\ Idle(p)
  /\ LET res == verifySessionToken(token, env.OIDC_CLIENT_SECRET, now) IN
       /\ authResult' = [authResult EXCEPT ![p] = {res}]
       /\ branch' = [branch EXCEPT ![p] = res.stage]
  /\ request' = [request EXCEPT ![p] = {[token |-> token, now |-> now]}]
  /\ response' = [response EXCEPT ![p] = NoResponse]
  /\ pc' = [pc EXCEPT ![p] = "done"]
  /\ kind' = [kind EXCEPT ![p] = "SESSION"]
  /\ session' = [session EXCEPT ![p] = NoSession]
  /\ Locals(p, {}, {}, {})
  /\ overlapped' = [q \in Procs |-> overlapped[q] \ {p}]
  /\ UNCHANGED <<user_keys, orKeys, nextToken, nextKey, revokedTokens,
                 replaced, authHeader, onCampus, env, outbound, sent>>

\* ------------------------------------------------ session token inputs
\* 's' and 't2'
Secrets == {<<115>>, <<116, 50>>}

\* Date.now() around the expiry times of the sessions
Times == 1..3

\* the tokens createSessionToken returns for the sessions under a secret
Issued(secret) ==
  {createSessionToken(s, secret).value :
     s \in {x \in Sessions : ~createSessionToken(x, secret).threw}}

\* s with its i-th character replaced by c
Replace(s, i, c) == [j \in 1..Len(s) |-> IF j = i THEN c ELSE s[j]]

\* a base64 character other than c
OtherChar(c) == Base64Char((Base64Value(c) + 32) % 64)

\* Tokens made from a token t = payload '.' signature: a part dropped or
\* emptied, a character outside the alphabet, a character lost, a
\* character of either part changed; and the spellings of t that decode
\* to the bytes of t: the unused low bits of the last signature character
\* changed, the padding left off, a third part added.
Mutations(t) ==
  LET P == split(t, ".")[1]
      S == split(t, ".")[2]
      last == Len(S) - 1
  IN { P,
       P \o <<".">>,
       <<".">> \o S,
       Replace(P, 1, "*") \o <<".">> \o S,
       P \o <<".">> \o Replace(S, 1, "*"),
       P \o <<".">> \o Tail(S),
       Replace(P, 1, OtherChar(P[1])) \o <<".">> \o S,
       P \o <<".">> \o Replace(S, 1, OtherChar(S[1])),
       P \o <<".">> \o Replace(S, last, Base64Char(Base64Value(S[last]) + 2)),
       P \o <<".">> \o SubSeq(S, 1, last),
       t \o <<".", "x">> }

\* the sessions whose tokens are mutated: 'J' expiring at 2, 'é' at 1
MutatedSessions ==
  {Session(<<97>>, <<74>>, {}, 2), Session(<<97>>, <<233>>, {}, 1)}

\* the cookies presented: the tokens issued under either secret, the
\* mutations of two tokens, an empty part on either side of the delimiter
Cookies ==
  UNION {Issued(k) : k \in Secrets}
    \cup UNION {Mutations(createSessionToken(s, <<115>>).value) :
                  s \in MutatedSessions}
    \cup {<<".">>, <<"x">>}

InitSession ==
  /\ user_keys = {} /\ orKeys = {} /\ nextToken = 0 /\ nextKey = 0
  /\ revokedTokens = {}
  /\ pc = [p \in Procs |-> "idle"]
  /\ kind = [p \in Procs |-> "GET"]
  /\ session = [p \in Procs |-> NoSession]
  /\ row = [p \in Procs |-> {}]
  /\ revoked = [p \in Procs |-> {}]
  /\ orKeyRef = [p \in Procs |-> {}]
  /\ response = [p \in Procs |-> NoResponse]
  /\ branch = [p \in Procs |-> ""]
  /\ authHeader = [p \in Procs |-> {}]
  /\ onCampus = [p \in Procs |-> FALSE]
  /\ authResult = [p \in Procs |-> {}]
  /\ overlapped = [p \in Procs |-> {}]
  /\ replaced = {}
  /\ env \in {SessionEnv(k) : k \in Secrets}
  /\ request = [p \in Procs |-> {}]
  /\ outbound = [p \in Procs |-> {}]
  /\ sent = [p \in Procs |-> {}]

NextSession ==
  \/ \E p \in ProxySlots, s \in Sessions : CreateSession(p, s)
  \/ \E p \in ProxySlots, t \in Cookies, now \in Times : GetSession(p, t, now)

SpecSession == InitSession /\ [][NextSession]_vars

\* ================================================================ claims
\* slot p has just ended its request in this step
Ends(p) == pc[p] # "done" /\ pc'[p] = "done"

\* the header forms in which a client presents proxy token t
Presented(t) == { {BEARER \o t}, {t} }

\* the 401 of the proxy-token branch of resolveAuth
IsInvalidOrRevoked(res) ==
  ~res.ok /\ res.status = 401 /\ res.message = "Invalid or revoked API key"

\* ------------------------------------------------------------------- C1
\* every token a successful DELETE /key revoked resolves to the 401
\* 'Invalid or revoked API key' in every later state
RevokedTokensDenied ==
  \A t \in revokedTokens : \A h \in Presented(t) : \A c \in BOOLEAN :
    IsInvalidOrRevoked(resolveAuth(h, c, user_keys))

\* a POST /key that succeeds issues a token no DELETE /key has revoked
IssuesUnrevokedToken ==
  \A p \in Procs :
    (Ends(p) /\ kind[p] = "POST" /\ response'[p].status = 200)
      => /\ response'[p].body # {}
         /\ response'[p].body \cap revokedTokens = {}

\* C1: after a successful DELETE /key the revoked token never resolves
\* again, whatever requests follow, and the token a later POST /key issues
\* is a different one.
C1_RevokedTokenNeverValidAgain ==
  [](RevokedTokensDenied) /\ [][IssuesUnrevokedToken]_vars

\* a token was revoked, a later POST /key reactivated the row with another
\* token, and the revoked token is denied
C1_Witness ==
  \E p \in Procs :
    /\ pc[p] = "done" /\ kind[p] = "POST"
    /\ branch[p] \in {"reactivated", "reactivated_fresh"}
    /\ revokedTokens # {}
    /\ response[p].body \cap revokedTokens = {}
    /\ \A t \in response[p].body :
         resolveAuth({BEARER \o t}, FALSE, user_keys).ok
    /\ \A t \in revokedTokens :
         IsInvalidOrRevoked(resolveAuth({BEARER \o t}, FALSE, user_keys))

\* ------------------------------------------------------------------- C2
\* C2: in every reachable state the registry holds at most one record with
\* revoked = 0 for each email.
C2_AtMostOneActivePerEmail ==
  \A e \in Emails : Cardinality({r \in user_keys : r.email = e
                                                   /\ r.revoked = 0}) <= 1

\* a user holds an active record and a second INSERT for the same email
\* was rejected by the table constraint
C2_Witness ==
  /\ \E r \in user_keys : r.revoked = 0
  /\ \E p \in Procs : pc[p] = "done" /\ branch[p] = "insert_threw"

\* ------------------------------------------------------------------- C3
\* C3: of two POST /key requests for the same email that are in flight
\* together while the user has no active record, exactly one ends with
\* success and the other with Conflict (409).  Requests that ended because
\* the upstream provisioner failed are left aside.
C3_ConcurrentCreateOneSuccessOneConflict ==
  \A p \in Procs : \A q \in Procs \ {p} :
    ( /\ pc[p] = "done" /\ pc[q] = "done"
      /\ kind[p] = "POST" /\ kind[q] = "POST"
      /\ q \in overlapped[p] /\ p \in overlapped[q]
      /\ branch[p] # "create_failed" /\ branch[q] # "create_failed" )
    => \/ response[p].status = 200 /\ response[q].status = 409
       \/ response[p].status = 409 /\ response[q].status = 200

\* ------------------------------------------------------------------- C4
\* C4: a candidate with the proxy-token prefix resolves to 'Bearer ' + the
\* upstream secret of the active record holding that token, not campus
\* mode, identity = the record's email; with no such record it ends in a
\* 401.  The presented token is never the forwarded authorization.
C4_ProxyTokenResolution ==
  \A p \in Procs : \A x \in TokenRequests :
    (pc[p] = "done" /\ kind[p] = "AUTH" /\ authHeader[p] = {x.header})
    => \E res \in authResult[p] :
         LET active == {r \in user_keys : r.bayleaf_token = x.candidate
                                          /\ r.revoked = 0}
         IN /\ IF active # {}
                 THEN \E r \in active :
                        /\ res.ok
                        /\ res.authorization = BEARER \o r.or_key_secret
                        /\ res.isCampusMode = FALSE
                        /\ res.userEmail = {r.email}
                        /\ response[p] = NoResponse
                 ELSE /\ ~res.ok /\ res.status = 401
                      /\ response[p].status = 401
            /\ res.ok => res.authorization \notin
                 {x.header, x.candidate, BEARER \o x.candidate}

\* one request presented an active token and was resolved to its secret,
\* another presented a revoked token and got the 401
C4_Witness ==
  \E p \in Procs, q \in Procs :
    /\ pc[p] = "done" /\ kind[p] = "AUTH" /\ authHeader[p] = {BEARER \o Token1}
    /\ \E res \in authResult[p] :
         res.ok /\ res.authorization = BEARER \o OrSecret(1)
    /\ pc[q] = "done" /\ kind[q] = "AUTH" /\ authHeader[q] = {BEARER \o Token2}
    /\ response[q].status = 401
    /\ \E r \in user_keys : r.bayleaf_token = Token2 /\ r.revoked = 1

UpstreamSecrets ==
  {r.or_key_secret : r \in user_keys} \cup {OrSecret(n) : n \in 1..nextKey}

\* C6: no response of POST /key, GET /key, DELETE /key or the dashboard
\* contains an upstream key secret.
C6_SecretNeverInResponse ==
  \A p \in Procs : response[p].body \cap UpstreamSecrets = {}

\* a POST /key has answered with a token while the registry stores the
\* secret behind it
C6_Witness ==
  \E p \in Procs :
    /\ pc[p] = "done" /\ kind[p] = "POST" /\ response[p].status = 200
    /\ \E r \in user_keys :
         r.bayleaf_token \in response[p].body /\ r.or_key_secret # <<>>

\* ------------------------------------------------------------------- C7
\* C7 as claimed: a proxy token appears only in the success response of
\* POST /key, in no GET /key, GET /dashboard or DELETE /key response.
C7_TokenOnlyInCreateResponse ==
  \A p \in Procs :
    response[p].body # {} => kind[p] = "POST" /\ response[p].status = 200

\* the proxy tokens issued so far
IssuedTokens == {generateBayleafToken(n) : n \in 1..nextToken}

\* C7 amended: a response that carries a proxy token is either the success
\* response of the POST /key that has just generated it, or a dashboard
\* page carrying the token of the active record the dashboard read for the
\* session's user.
C7_TokenInCreateResponseAndDashboard ==
  [][\A p \in Procs : Ends(p) =>
       \A t \in response'[p].body :
         \/ /\ kind[p] = "POST" /\ response'[p].status = 200
            /\ t \notin IssuedTokens
            /\ t \in {r.bayleaf_token : r \in user_keys'}
            /\ response'[p].body = {t}
         \/ /\ kind[p] = "DASH" /\ response'[p].status = 200
            /\ \E r \in row[p] : /\ r.bayleaf_token = t
                                 /\ r.email = session[p]
                                 /\ r.revoked = 0]_vars

\* a dashboard page carries the token that a POST /key response returned
C7_Witness ==
  \E p \in Procs, q \in Procs :
    /\ pc[p] = "done" /\ kind[p] = "POST" /\ response[p].status = 200
    /\ pc[q] = "done" /\ kind[q] = "DASH"
    /\ response[q].body # {} /\ response[q].body = response[p].body

\* ------------------------------------------------------------------- C8
\* C8: POST /key that finds an active record for the user ends with 409 and
\* changes neither the registry nor the upstream key store.
C8_ConflictLeavesAllUnchanged ==
  [][\A p \in Procs :
       ( /\ pc[p] = "select_active" /\ kind[p] = "POST" /\ pc'[p] # pc[p]
         /\ \E r \in user_keys : r.email = session[p] /\ r.revoked = 0 )
       => /\ pc'[p] = "done"
          /\ response'[p].status = 409
          /\ user_keys' = user_keys
          /\ orKeys' = orKeys /\ nextKey' = nextKey]_vars

\* a POST /key has ended with 409 while the active record is in place
C8_Witness ==
  \E p \in Procs :
    /\ pc[p] = "done" /\ kind[p] = "POST" /\ response[p].status = 409
    /\ \E r \in user_keys : r.revoked = 0

C10_RevokeSetsOnlyTheFlag ==
  [][\A p \in Procs :
       /\ ( /\ pc[p] = "select_active" /\ kind[p] = "DELETE"
            /\ pc'[p] # pc[p] ) =>
            /\ user_keys' = user_keys /\ orKeys' = orKeys
            /\ IF \E r \in user_keys : r.email = session[p] /\ r.revoked = 0
                 THEN pc'[p] = "delete_update"
                 ELSE pc'[p] = "done" /\ response'[p].status = 404
       /\ (pc[p] = "delete_update" /\ Ends(p)) =>
            /\ response'[p].status = 200
            /\ orKeys' = orKeys
            /\ Cardinality(user_keys') = Cardinality(user_keys)
            /\ \A r \in user_keys : \E n \in user_keys' :
                 /\ n.email = r.email
                 /\ n.bayleaf_token = r.bayleaf_token
                 /\ n.or_key_hash = r.or_key_hash
                 /\ n.or_key_secret = r.or_key_secret
                 /\ n.revoked = IF r.email = session[p] THEN 1
                                ELSE r.revoked]_vars

\* one DELETE /key has revoked a record whose upstream key is still alive,
\* another has answered 404
C10_Witness ==
  \E p \in Procs, q \in Procs :
    /\ pc[p] = "done" /\ kind[p] = "DELETE" /\ response[p].status = 200
    /\ pc[q] = "done" /\ kind[q] = "DELETE" /\ response[q].status = 404
    /\ \E r \in user_keys :
         /\ r.revoked = 1
         /\ \E k \in orKeys : k.hash = r.or_key_hash /\ ~k.disabled

\* ------------------------------------------------------------------ C11
\* the upstream id and secret of the row an ensure holds in slot p
HeldRef(p) ==
  IF kind[p] = "DASH" THEN UpstreamRef(row[p]) ELSE row[p]

C12_ProvisioningFailureIs5xx ==
  [][\A p \in Procs :
       ( /\ pc[p] \in {"post_create", "ensure_create", "dash_create"}
         /\ pc'[p] # pc[p] /\ orKeys' = orKeys )
       => /\ pc'[p] = "done"
          /\ response'[p].status >= 500
          /\ user_keys' = user_keys]_vars

\* ------------------------------------------------------------------ C13
\* C13: GET /key for a user without an active record ends at once with 404,
\* and a dashboard load for such a user ends at once with a page that
\* carries no token; neither provisions an upstream key nor touches the
\* registry, whether or not the user has a revoked record.
C13_NoActiveRecordCreatesNothing ==
  [][\A p \in Procs :
       ( /\ pc[p] = "select_active" /\ kind[p] \in {"GET", "DASH"}
         /\ pc'[p] # pc[p]
         /\ ~ \E r \in user_keys : r.email = session[p] /\ r.revoked = 0 )
       => /\ pc'[p] = "done"
          /\ response'[p].status = IF kind[p] = "GET" THEN 404 ELSE 200
          /\ response'[p].body = {}
          /\ user_keys' = user_keys
          /\ orKeys' = orKeys /\ nextKey' = nextKey]_vars

\* a GET /key has answered 404 for a user whose only record is revoked,
\* and that record and its upstream key are as the revoke left them
C13_Witness ==
  \E p \in Procs :
    /\ pc[p] = "done" /\ kind[p] = "GET" /\ response[p].status = 404
    /\ user_keys = {Row("a", Token1, 1, OrSecret(1), 1)}
    /\ nextKey = 1

\* ------------------------------------------------------------------ C14
\* C14: a candidate that is not empty, is not 'campus' in any letter case
\* and does not start with the proxy-token prefix makes resolveAuth return
\* the Authorization header as it came, not campus mode, no identity, with
\* no registry lookup and no 401, on campus and off campus alike.
C14_PassthroughForwardsHeaderUnchanged ==
  \A p \in Procs : \A h \in authHeader[p] :
    LET candidate == trim(StripBearer(h)) IN
      ( /\ pc[p] = "done" /\ kind[p] = "AUTH"
        /\ candidate # <<>>
        /\ toLowerCase(candidate) # CAMPUS
        /\ ~startsWith(candidate, BAYLEAF_TOKEN_PREFIX) )
      => /\ response[p] = NoResponse
         /\ \E res \in authResult[p] :
              /\ res.ok
              /\ res.authorization = h
              /\ res.isCampusMode = FALSE
              /\ res.userEmail = {}
              /\ res.lookups = {}

\* an on-campus request presented a bare upstream key and an off-campus
\* one a padded Bearer credential; both were passed through as they came
C14_Witness ==
  \E p \in Procs, q \in Procs :
    /\ pc[p] = "done" /\ kind[p] = "AUTH" /\ onCampus[p]
    /\ authHeader[p] = {OrSecret(1)}
    /\ \E res \in authResult[p] : res.ok /\ res.authorization = OrSecret(1)
    /\ pc[q] = "done" /\ kind[q] = "AUTH" /\ ~onCampus[q]
    /\ authHeader[q] = {<<"b","e","a","r","e","r","\t">> \o OrSecret(2) \o <<" ">>}
    /\ \E res \in authResult[q] :
         res.ok /\ res.authorization = <<"b","e","a","r","e","r","\t">> \o OrSecret(2) \o <<" ">>
         /\ ~res.isCampusMode

\* ------------------------------------------------------------------ C15
\* the /v1 request of slot p is a POST to an injection endpoint whose body
\* parses as JSON
Rewritten(p) ==
  \E req \in request[p] :
    /\ IsResponsesRoute(req) \/ IsChatCompletions(req)
    /\ \E b \in req.body : b.valid

\* C15: a /v1 handler rewrites the body only after resolveAuth has returned
\* an AuthResult, and calls fetch only after that and, where the body is
\* rewritten, with the finished rewrite as the body and the resolved
\* credential as Authorization; a request resolveAuth answers with 401
\* ends there with nothing rewritten and nothing sent upstream.
C15_AuthThenRewriteThenDispatch ==
  /\ [](\A p \in Procs :
          /\ (outbound[p] # {} \/ sent[p] # {}) =>
               \E res \in authResult[p] :
                 /\ res.ok
                 /\ \A u \in sent[p] : u.authorization = res.authorization
          /\ (kind[p] = "PROXY" /\ \E res \in authResult[p] : ~res.ok) =>
               /\ pc[p] = "done" /\ response[p].status = 401
               /\ outbound[p] = {} /\ sent[p] = {})
  /\ [][\A p \in Procs :
          /\ (outbound'[p] # outbound[p] /\ outbound'[p] # {}) =>
               /\ authResult[p] # {} /\ authResult'[p] = authResult[p]
               /\ sent[p] = {} /\ sent'[p] = {}
          /\ (sent'[p] # sent[p] /\ sent'[p] # {}) =>
               /\ authResult[p] # {} /\ authResult'[p] = authResult[p]
               /\ outbound'[p] = outbound[p]
               /\ Rewritten(p) =>
                    /\ outbound[p] # {}
                    /\ \A u \in sent'[p] : u.body = outbound[p]]_vars

\* a chat request presented an active token, its body was rewritten and
\* went upstream under the owner's upstream secret
C15_Witness ==
  \E p \in Procs :
    /\ pc[p] = "done" /\ kind[p] = "PROXY" /\ outbound[p] # {}
    /\ authHeader[p] = {BEARER \o Token1}
    /\ \E u \in sent[p] :
         /\ u.body = outbound[p] /\ u.body # UNION {r.body : r \in request[p]}
         /\ u.authorization = BEARER \o OrSecret(1)

\* ------------------------------------------------------------------ C16
\* the prefixes a deployment can inject
Prefixes ==
  {env.SYSTEM_PROMPT_PREFIX,
   env.SYSTEM_PROMPT_PREFIX \o BlankLine \o env.CAMPUS_SYSTEM_PREFIX}

\* C16: the upstream request of a POST /v1/chat/completions whose body has
\* a messages array carries, for some prefix, either the same messages
\* with the content of the first system message replaced by prefix +
\* "\n\n" + its content, or, when no message is a system message, a new
\* system message with content prefix followed by the original messages.
C16_ChatInjection ==
  \A p \in Procs : \A req \in request[p] : \A u \in sent[p] :
    \A b \in req.body : \A m \in b.messages :
      (IsChatCompletions(req) /\ b.valid) =>
        \E out \in UNION {o.messages : o \in u.body} :
        \E prefix \in Prefixes :
          LET systems == {i \in 1..Len(m) : m[i].role = "system"} IN
            IF systems # {}
              THEN \E i \in systems :
                     /\ \A j \in systems : i <= j
                     /\ Len(out) = Len(m)
                     /\ out[i] = Message("system",
                                   prefix \o BlankLine \o m[i].content)
                     /\ \A j \in 1..Len(m) : j # i => out[j] = m[j]
              ELSE /\ Len(out) = Len(m) + 1
                   /\ out[1] = Message("system", prefix)
                   /\ \A j \in 1..Len(m) : out[j + 1] = m[j]

\* a chat request with two system messages after a user message went
\* upstream with the first of them prefixed and the rest as sent
C16_Witness ==
  \E p \in Procs : \E u \in sent[p] : \E o \in u.body :
    /\ pc[p] = "done"
    /\ o.messages = {<<UserHi,
                       Message("system", <<"P","\n","\n","S">>), SystemT>>}

\* ------------------------------------------------------------------ C17
\* C17: the upstream request of a POST /v1/responses with a JSON body
\* carries instructions = prefix + "\n\n" + the original instructions when
\* the body has an instructions field and instructions = prefix when it
\* has none; the fields other than instructions and user are as sent.
C17_InstructionsPrefixedWhenPresent ==
  \A p \in Procs : \A req \in request[p] : \A u \in sent[p] :
    \A b \in req.body :
      (IsResponsesRoute(req) /\ b.valid) =>
        \E o \in u.body : \E prefix \in Prefixes :
          /\ o.instructions =
               IF b.instructions # {}
                 THEN {prefix \o BlankLine \o i : i \in b.instructions}
                 ELSE {prefix}
          /\ o.messages = b.messages /\ o.rest = b.rest /\ o.valid

\* ------------------------------------------------------------------ C18
\* the prefix of the auth decision res: the base prompt, and in campus
\* mode with a configured suffix the base prompt, a blank line, the suffix
PrefixOf(res) ==
  IF res.isCampusMode /\ env.CAMPUS_SYSTEM_PREFIX # <<>>
    THEN env.SYSTEM_PROMPT_PREFIX \o BlankLine \o env.CAMPUS_SYSTEM_PREFIX
    ELSE env.SYSTEM_PROMPT_PREFIX

\* C18: what both injections put in front is the base prompt followed by
\* "\n\n" and the campus suffix exactly when the decision is campus mode
\* and a suffix is configured, and the base prompt alone for a proxy token
\* or a passed-through credential: the forwarded instructions, and the
\* content of the forwarded first system message, are that prefix or that
\* prefix + "\n\n" + the original text.
C18_PrefixByCampusMode ==
  \A p \in Procs : \A req \in request[p] : \A u \in sent[p] :
    \A b \in req.body : \A res \in authResult[p] : \A o \in u.body :
      /\ (IsResponsesRoute(req) /\ b.valid) =>
           \/ o.instructions = {PrefixOf(res)}
           \/ \E i \in b.instructions :
                o.instructions = {PrefixOf(res) \o BlankLine \o i}
      /\ (IsChatCompletions(req) /\ b.valid /\ b.messages # {}) =>
           \A out \in o.messages :
             \E i \in 1..Len(out) :
               /\ out[i].role = "system"
               /\ \A j \in 1..(i - 1) : out[j].role # "system"
               /\ \/ out[i].content = PrefixOf(res)
                  \/ \E m \in b.messages : \E j \in 1..Len(m) :
                       out[i].content =
                         PrefixOf(res) \o BlankLine \o m[j].content

\* with a suffix configured, a campus request to /responses went upstream
\* with instructions "P\n\nC"
C18_Witness ==
  \E p \in Procs : \E req \in request[p] : \E u \in sent[p] :
    \E res \in authResult[p] : \E o \in u.body :
      /\ pc[p] = "done" /\ IsResponsesRoute(req) /\ res.isCampusMode
      /\ o.instructions = {<<"P","\n","\n","C">>}

\* ------------------------------------------------------------------ C19
\* C19: on both injection endpoints a user field of the body goes upstream
\* as it came; a body without one goes upstream with user = the email of
\* the resolved identity, else 'campus-anonymous' in campus mode, else
\* without a user field.
C19_UserFieldNeverOverwritten ==
  \A p \in Procs : \A req \in request[p] : \A u \in sent[p] :
    \A b \in req.body : \A res \in authResult[p] :
      ((IsResponsesRoute(req) \/ IsChatCompletions(req)) /\ b.valid) =>
        \E o \in u.body :
          o.user = IF b.user # {} THEN b.user
                   ELSE IF res.userEmail # {}
                     THEN {<<e>> : e \in res.userEmail}
                   ELSE IF res.isCampusMode THEN {CAMPUS_ANONYMOUS}
                   ELSE {}

\* ------------------------------------------------------------------ C20
\* C20: an authorized /v1 request that is not a POST to /chat/completions
\* or /responses goes upstream with its method, its path under /v1, its
\* query, its body and its other headers as they came, without a Host
\* header and with the resolved credential as Authorization.
C20_OtherRequestsForwardedUnchanged ==
  \A p \in Procs : \A req \in request[p] : \A res \in authResult[p] :
    ( /\ pc[p] = "done" /\ kind[p] = "PROXY" /\ res.ok
      /\ ~ (req.method = "POST" /\
            req.pathname \in {<<"v1", "chat", "completions">>,
                              <<"v1", "responses">>}) )
    => \E u \in sent[p] :
         /\ u.method = req.method
         /\ <<"v1">> \o u.path = req.pathname
         /\ u.search = req.search
         /\ u.body = req.body
         /\ u.headers = req.headers
         /\ u.host = {}
         /\ u.authorization = res.authorization

\* an on-campus POST /v1/embeddings without credentials went upstream
\* under the pool key with its system message and instructions untouched
C20_Witness ==
  \E p \in Procs : \E req \in request[p] : \E u \in sent[p] :
    /\ pc[p] = "done" /\ authHeader[p] = {}
    /\ req.pathname = <<"v1", "embeddings">> /\ req.host = {HOST}
    /\ u.authorization = BEARER \o CAMPUS_POOL_KEY
    /\ u.body = {JsonBody({<<SystemS, UserHi>>}, {<<"X">>}, {}, Gpt)}
    /\ u.host = {}

\* ------------------------------------------------------------------ C21
\* C21: an authorized POST /v1/chat/completions whose body does not parse
\* as JSON ends with the upstream's answer to a request that carried the
\* original body; the handler raises no error.
C21_MalformedChatBodyForwarded ==
  \A p \in Procs : \A req \in request[p] : \A res \in authResult[p] :
    ( /\ pc[p] = "done" /\ kind[p] = "PROXY" /\ res.ok
      /\ IsChatCompletions(req) /\ \A b \in req.body : ~b.valid )
    => /\ \E u \in sent[p] : u.body = req.body
       /\ response[p].status \in UpstreamStatuses

\* ------------------------------------------------------------------ C22
\* C22: on both endpoints that rewrite the body (POST /v1/chat/completions
\* and POST /v1/responses) an authorized request whose body does not parse
\* as JSON goes upstream with that body, and the response is the
\* upstream's, never one the proxy made up.
C22_MalformedBodyNeverFailsInProxy ==
  \A p \in Procs : \A req \in request[p] : \A res \in authResult[p] :
    ( /\ pc[p] = "done" /\ kind[p] = "PROXY" /\ res.ok
      /\ IsChatCompletions(req) \/ IsResponsesRoute(req)
      /\ \A b \in req.body : ~b.valid )
    => /\ sent[p] # {}
       /\ \A u \in sent[p] : u.body = req.body
       /\ response[p].error = ""

\* ------------------------------------------------------------------ C26
\* C26: a token that a POST /key handed out with its 200 resolves through
\* resolveAuth to the signed-in user's email for as long as no DELETE /key
\* of that user has revoked it, whatever other requests of the user ran
\* alongside.
C26_IssuedTokenValidUntilRevoked ==
  \A p \in Procs : \A t \in response[p].body :
    ( /\ pc[p] = "done" /\ kind[p] = "POST" /\ response[p].status = 200
      /\ t \notin revokedTokens )
    => LET res == resolveAuth({BEARER \o t}, FALSE, user_keys) IN
         res.ok /\ res.userEmail \subseteq SignedIn /\ res.userEmail # {}

\* ------------------------------------------------------------------ C27
\* C27: resolveAuth answers the proxy token of an active record with
\* 'Bearer ' + the upstream secret the registry holds for it at that
\* moment.  The step in which a self-heal writes its new key makes that
\* the new key's secret, and no secret a self-heal has replaced under a
\* token is ever returned for that token again.
C27_HealedSecretIsForwarded ==
  /\ [](\A r \in user_keys :
          r.revoked = 0 =>
            LET res == resolveAuth({BEARER \o r.bayleaf_token}, FALSE,
                                   user_keys)
            IN /\ res.ok
               /\ res.authorization = BEARER \o r.or_key_secret
               /\ \A x \in replaced :
                    x.token = r.bayleaf_token =>
                      res.authorization # BEARER \o x.secret)
  /\ [][\A p \in Procs :
          (pc[p] \in {"ensure_update", "dash_update"} /\ Ends(p)) =>
            \A r \in user_keys :
              (r.email = session[p] /\ r.revoked = 0) =>
                LET res == resolveAuth({BEARER \o r.bayleaf_token}, FALSE,
                                       user_keys')
                IN /\ res.ok
                   /\ res.authorization # BEARER \o r.or_key_secret
                   /\ \E ref \in orKeyRef[p] :
                        res.authorization = BEARER \o ref.key]_vars

\* a GET /key has healed the active record: the token it was issued with
\* now resolves to the secret of the second upstream key
C27_Witness ==
  \E p \in Procs :
    /\ pc[p] = "done" /\ kind[p] = "GET" /\ branch[p] = "healed"
    /\ replaced = {[token |-> Token1, secret |-> OrSecret(1)]}
    /\ resolveAuth({BEARER \o Token1}, FALSE, user_keys).authorization
         = BEARER \o OrSecret(2)

\* ------------------------------------------------------------------ C28
\* the rows of users other than `email`
RowsOfOthers(table, email) == {r \in table : r.email # email}

\* C28: a step of a /key or dashboard request under the session of one
\* user leaves every other user's record as it was, and nothing of
\* another user's record gets into the request's locals or its response;
\* a /key request without a session is answered 401 and changes neither
\* the registry nor the upstream key store.
C28_KeyOperationsIsolatedPerUser ==
  /\ [](\A p \in Procs : \A r \in user_keys :
          (InFlight(p) /\ r.email # session[p]) =>
            /\ \A x \in row[p] \cup revoked[p] \cup orKeyRef[p] :
                 /\ r.or_key_secret \notin
                      {x[f] : f \in DOMAIN x \cap {"key", "or_key_secret"}}
                 /\ r.bayleaf_token \notin
                      {x[f] : f \in DOMAIN x \cap {"bayleaf_token"}}
            /\ r.bayleaf_token \notin response[p].body)
  /\ [][\A p \in Procs :
          /\ (InFlight(p) /\ pc'[p] # pc[p]) =>
               /\ RowsOfOthers(user_keys', session[p])
                    = RowsOfOthers(user_keys, session[p])
               /\ \A r \in RowsOfOthers(user_keys, session[p]) :
                    /\ r.bayleaf_token \notin response'[p].body
                    /\ \A k \in orKeys :
                         k.hash = r.or_key_hash => k \in orKeys'
          /\ ( /\ Idle(p) /\ pc'[p] = "done" /\ branch'[p] = "no_session"
               /\ kind'[p] # "DASH"
               /\ <<pc[p], branch[p], kind[p]>>
                    # <<pc'[p], branch'[p], kind'[p]>> ) =>
               /\ response'[p].status = 401
               /\ user_keys' = user_keys /\ orKeys' = orKeys]_vars

\* the signed-in user has created, revoked and re-created a key and healed
\* it, a request without a session got its 401, and the other user's
\* record and upstream key are as they were at the start
C28_Witness ==
  \E p \in Procs, q \in Procs :
    /\ pc[p] = "done" /\ branch[p] = "healed"
    /\ pc[q] = "done" /\ branch[q] = "no_session"
    /\ response[q].status = 401
    /\ revokedTokens # {}
    /\ OtherRow \in user_keys
    /\ OrKey(0, getKeyName("b"), FALSE) \in orKeys
    /\ \E r \in user_keys : r.email = "a" /\ r.revoked = 0

\* ------------------------------------------------------------------ C23
\* slot p has answered GET / for a visitor without a session
Landed(p) == pc[p] = "done" /\ kind[p] = "LANDING" /\ branch[p] # "redirect"

\* the address getClientIP takes from the headers slot p read
ClientOf(p) == getClientIP(CHOOSE h \in request[p] : TRUE)

\* C23: the campus flag of an answered request is set exactly when a pool
\* key is configured and the client address is in at least one of the
\* configured ranges; without a pool key, or without ranges, it is never
\* set.
C23_EligibleIffPoolKeyAndInSomeRange ==
  \A p \in Procs :
    Landed(p) =>
      /\ onCampus[p] <=>
           /\ Truthy(env.CAMPUS_POOL_KEY)
           /\ \E config \in env.CAMPUS_IP_RANGES :
                \E i \in 1..Len(rangeList(config)) :
                  LET r == isIPInCIDR(ClientOf(p), rangeList(config)[i])
                  IN ~r.threw /\ r.value
      /\ (~Truthy(env.CAMPUS_POOL_KEY) \/ ~Truthy(env.CAMPUS_IP_RANGES))
           => ~onCampus[p]

\* ------------------------------------------------------------------ C29
\* the addresses and ranges a text denotes: none when it is malformed
AddressOf(text) == {a \in Addresses : a.text = text}
RangeOf(text) == {r \in Ranges : r.text = text}

\* the entries of a value of CAMPUS_IP_RANGES
EntriesOf(config) ==
  UNION {{l[i] : i \in 1..Len(l)} : l \in {x \in RangeLists : Join(x) = config}}

\* the top p binary digits of a and b are equal, a and b given as groups
\* of w binary digits each
TopBitsEqual(a, b, p, w) ==
  \A i \in 1..Len(a) :
    LET above == (i - 1) * w
        k == IF p <= above THEN 0 ELSE IF p >= above + w THEN w ELSE p - above
    IN a[i] \div (2 ^ (w - k)) = b[i] \div (2 ^ (w - k))

\* address a is in range r
InRange(a, r) ==
  /\ a.family = r.base.family
  /\ TopBitsEqual(a.groups, r.base.groups, r.prefixLen,
                  IF a.family = 4 THEN 8 ELSE 16)

\* C29: with a pool key and ranges configured, the check of an answered
\* request never ends in an error, and its outcome is the outcome over
\* the well-formed ranges of the list: a malformed entry, and a malformed
\* client address, match nothing.
C29_MalformedEntriesMatchNothing ==
  \A p \in Procs :
    (Landed(p) /\ Truthy(env.CAMPUS_POOL_KEY)
       /\ Truthy(env.CAMPUS_IP_RANGES)) =>
      /\ branch[p] = "landing"
      /\ onCampus[p] <=>
           \E config \in env.CAMPUS_IP_RANGES :
             \E a \in AddressOf(ClientOf(p)), e \in EntriesOf(config) :
               \E r \in RangeOf(e) : InRange(a, r)

CookieOf(p) == CHOOSE r \in request[p] : TRUE

\* what verifySessionToken returned in slot p
ResultOf(p) == CHOOSE r \in authResult[p] : TRUE

\* C24: createSessionToken returns a token for every session, and a token
\* it returns under the secret verifies to the session it was made from
\* at any time up to the session's expiry and to null after it.
C24_SignThenVerifyRoundTrip ==
  \A p \in Procs :
    /\ (pc[p] = "done" /\ kind[p] = "CALLBACK") => branch[p] = "signed_in"
    /\ (pc[p] = "done" /\ kind[p] = "SESSION") =>
         \A s \in Sessions :
           LET made == createSessionToken(s, env.OIDC_CLIENT_SECRET) IN
             (~made.threw /\ made.value = CookieOf(p).token) =>
               ResultOf(p).value =
                 IF CookieOf(p).now <= s.exp THEN {s} ELSE {}

\* ------------------------------------------------------------------ C25
\* C25: verifySessionToken never throws; it returns null for every token
\* that is not one createSessionToken returns under the secret (a part
\* missing, a part that does not decode, a signature that is not the one
\* of the payload, any mutation of a signed token); and it reaches
\* JSON.parse only with a signature that is the HMAC of the payload.
C25_VerifyFailsClosed ==
  \A p \in Procs :
    (pc[p] = "done" /\ kind[p] = "SESSION") =>
      /\ ~ResultOf(p).threw
      /\ CookieOf(p).token \notin Issued(env.OIDC_CLIENT_SECRET)
           => ResultOf(p).value = {}
      /\ ResultOf(p).stage \in {"unparseable", "expired", "valid"} =>
           LET parts == split(CookieOf(p).token, ".") IN
             atob(parts[2]).value
               = HMAC(env.OIDC_CLIENT_SECRET, encode(atob(parts[1]).value))
====
